---------------------------- MODULE Spec2Model ----------------------------
(***************************************************************************)
(* Resource replication and journal subsystem of kube-scheduler-simulator. *)
(*                                                                         *)
(*   Syncer   : source store -> change feeds -> pipeline -> destination    *)
(*   Recorder : change feeds -> in-memory buffer -> Journal file           *)
(*   Replayer : Journal file -> Resource Applier -> destination            *)
(***************************************************************************)
EXTENDS Integers, Sequences, FiniteSets, TLC

(***************************************************************************)
(* Bounds of the model.                                                    *)
(***************************************************************************)
\* number of writes the environment makes to the source store
MaxEvents == 3

(***************************************************************************)
(* Kinds (GroupVersionResources), named by their resource name.            *)
(***************************************************************************)
MandatoryGVRs ==
    << "namespaces", "priorityclasses", "storageclasses",
       "persistentvolumeclaims", "nodes", "persistentvolumes", "pods" >>

\* the kinds whose objects the environment writes in this model
SrcKinds == { "namespaces", "persistentvolumeclaims", "persistentvolumes", "pods" }

Namespaced(kind) == kind \in { "persistentvolumeclaims", "pods" }

\* Event (the pipeline's event type) and the three informer notifications
Add    == "Add"
Update == "Update"
Delete == "Delete"

(***************************************************************************)
(* Objects.  An unstructured object is kept as the fields the pipeline     *)
(* reads or writes; uid 0, generation 0 and resourceVersion 0 are the      *)
(* empty values.  untyped: the object carries content that the typed view  *)
(* (v1.Pod, v1.PersistentVolume) has no field for.  claimRef is <<>> or a  *)
(* one-element sequence.                                                   *)
(***************************************************************************)
NodeNames == { "", "node-1" }
ServiceAccounts == { "default", "custom" }

ObjName(kind) ==
    CASE kind = "namespaces"             -> "default"
      [] kind = "persistentvolumeclaims" -> "pvc-1"
      [] kind = "persistentvolumes"      -> "pv-1"
      [] kind = "pods"                   -> "pod-1"

ObjNamespace(kind) == IF Namespaced(kind) THEN "default" ELSE ""

\* the object of a kind with every other field empty
BaseObj(kind) ==
    [ kind               |-> kind,
      namespace          |-> ObjNamespace(kind),
      name               |-> ObjName(kind),
      uid                |-> 0,
      generation         |-> 0,
      resourceVersion    |-> 0,
      nodeName           |-> "",
      serviceAccountName |-> "",
      phase              |-> "",
      claimRef           |-> << >>,
      untyped            |-> FALSE ]

VARIABLES
    src,                 \* source store: kind -> <<>> or <<object>>
    srcRV,               \* number of writes the source store has seen
    feed,                \* kind -> the events the kind's informer delivered so far
    dest,                \* destination store: kind -> <<>> or <<[obj, id]>>
    destSeq,             \* number of objects the destination created so far
    mutatingFunctions,   \* the Service's registry: kind -> function name or "none"
    filteringFunctions,  \* the Service's registry: kind -> function name or "none"
    log,                 \* kind -> what the handler did with each delivered event
    buffer,              \* Recorder: the in-memory records, in arrival order
    journalFile,         \* the Journal file: a JSON array of records
    recorded,            \* Recorder: kind -> number of the kind's events it took
    recRunning,          \* Recorder: kind -> a handler of the kind has appended and not flushed
    recOverlap,          \* Recorder: handlers of two kinds have run at the same time
    replay,              \* Replayer: the Replay call in progress
    runs,                \* Replayer: the Replay calls that returned, with their results
    services,            \* the Services New has returned, each with its Options
    run,                 \* Service.Run: how far its loop over the kinds is
    importer,            \* the one-shot importer: ImportClusterResources and its workers
    sim                  \* startSimulator: its position and its configuration

syncerVars   == << dest, destSeq, mutatingFunctions, filteringFunctions, log >>
recorderVars == << buffer, recorded, recRunning, recOverlap >>
replayerVars == << replay, runs >>
processVars  == << services, run, importer, sim >>

vars == << src, srcRV, feed, dest, destSeq, mutatingFunctions, filteringFunctions, log,
           buffer, journalFile, recorded, recRunning, recOverlap, replay, runs,
           services, run, importer, sim >>


(***************************************************************************)
(* Errors: the stage of the handler that failed and the class of the       *)
(* error (the classes the handlers tell apart with errors.IsNotFound).     *)
(***************************************************************************)
NoErr == [ stage |-> "", class |-> "" ]
Err(stage, class) == [ stage |-> stage, class |-> class ]
IsNotFound(err) == err.class = "NotFound"
IsAlreadyExists(err) == err.class = "AlreadyExists"

(***************************************************************************)
(* Store reads.                                                            *)
(***************************************************************************)
Holds(store, kind, namespace, name) ==
    /\ kind \in DOMAIN store
    /\ store[kind] # << >>
    /\ store[kind][1].namespace = namespace
    /\ store[kind][1].name = name

\* runtime.DefaultUnstructuredConverter.FromUnstructured followed by
\* ToUnstructured: what the typed struct has no field for is dropped
ToTyped(resource) == [ resource EXCEPT !.untyped = FALSE ]

(***************************************************************************)
(* The built-in pipeline functions.  Each returns [obj, err] or [ok, err]. *)
(***************************************************************************)
\* mutant: the claim is looked up for every volume that refers to one,
\* whatever its phase
mutatePVAnyPhase(resource, srcStore) ==
    LET pv == ToTyped(resource) IN
    IF pv.claimRef # << >>
    THEN IF Holds(srcStore, "persistentvolumeclaims", pv.claimRef[1].namespace, pv.claimRef[1].name)
         THEN [ obj |-> [ pv EXCEPT !.claimRef =
                            << [ pv.claimRef[1] EXCEPT
                                   !.uid = srcStore["persistentvolumeclaims"][1].uid ] >> ],
                err |-> [ stage |-> "", class |-> "" ] ]
         ELSE [ obj |-> pv, err |-> [ stage |-> "mutate", class |-> "NotFound" ] ]
    ELSE [ obj |-> pv, err |-> [ stage |-> "", class |-> "" ] ]

\* mutant: a Bound volume whose claim the source does not hold is passed on
\* as it is, without an error
mutatePVIgnoringLookup(resource, srcStore) ==
    LET pv == ToTyped(resource) IN
    IF pv.phase = "Bound"
         /\ Holds(srcStore, "persistentvolumeclaims", pv.claimRef[1].namespace, pv.claimRef[1].name)
    THEN [ obj |-> [ pv EXCEPT !.claimRef =
                       << [ pv.claimRef[1] EXCEPT
                              !.uid = srcStore["persistentvolumeclaims"][1].uid ] >> ],
           err |-> [ stage |-> "", class |-> "" ] ]
    ELSE [ obj |-> pv, err |-> [ stage |-> "", class |-> "" ] ]

mutatePV(resource, srcStore) ==
    LET pv == ToTyped(resource) IN
    IF pv.phase = "Bound"
    THEN LET ref == pv.claimRef[1] IN
         IF Holds(srcStore, "persistentvolumeclaims", ref.namespace, ref.name)
         THEN [ obj |-> [ pv EXCEPT !.claimRef =
                            << [ ref EXCEPT !.uid = srcStore["persistentvolumeclaims"][1].uid ] >> ],
                err |-> NoErr ]
         ELSE [ obj |-> pv, err |-> Err("mutate", "NotFound") ]
    ELSE [ obj |-> pv, err |-> NoErr ]

\* mutant: the service account of the source pod is kept
mutatePodsKeepAccount(resource) ==
    [ obj |-> ToTyped(resource), err |-> [ stage |-> "", class |-> "" ] ]

mutatePods(resource) ==
    [ obj |-> [ ToTyped(resource) EXCEPT !.serviceAccountName = "default" ],
      err |-> NoErr ]

\* mutant: the placement check is left out
filterPodsAnyUpdate(resource, event) == [ ok |-> TRUE, err |-> [ stage |-> "", class |-> "" ] ]

filterPods(resource, event) ==
    IF event # Update
    THEN [ ok |-> TRUE, err |-> NoErr ]
    ELSE IF resource.nodeName # ""
         THEN [ ok |-> FALSE, err |-> NoErr ]
         ELSE [ ok |-> TRUE, err |-> NoErr ]

(***************************************************************************)
(* Caller-supplied functions (Options.Additional...Functions) are          *)
(* arbitrary code; one call has one of these outcomes.                     *)
(*   filter: accepts, rejects or fails                                     *)
(*   mutate: returns the object as given, returns the object as the source *)
(*           store holds it now (a re-read), or fails                      *)
(***************************************************************************)
UserFilterOutcomes == { "accept", "reject", "error" }
UserMutateOutcomes == { "same", "reread", "error" }

userFilter(outcome) ==
    CASE outcome = "accept" -> [ ok |-> TRUE,  err |-> NoErr ]
      [] outcome = "reject" -> [ ok |-> FALSE, err |-> NoErr ]
      [] outcome = "error"  -> [ ok |-> FALSE, err |-> Err("filter", "Other") ]

userMutate(resource, srcStore, outcome) ==
    CASE outcome = "same"   -> [ obj |-> resource, err |-> NoErr ]
      [] outcome = "reread" ->
            IF Holds(srcStore, resource.kind, resource.namespace, resource.name)
            THEN [ obj |-> srcStore[resource.kind][1], err |-> NoErr ]
            ELSE [ obj |-> resource, err |-> Err("mutate", "NotFound") ]
      [] outcome = "error"  -> [ obj |-> resource, err |-> Err("mutate", "Other") ]

\* a call of the MutatingFunction / FilteringFunction registered under a name
MutatingFunction(fn, resource, srcStore, outcome) ==
    CASE fn = "mutatePV"   -> mutatePV(resource, srcStore)
      [] fn = "mutatePods" -> mutatePods(resource)
      [] fn = "userMutate" -> userMutate(resource, srcStore, outcome)

FilteringFunction(fn, resource, event, outcome) ==
    CASE fn = "filterPods" -> filterPods(resource, event)
      [] fn = "userFilter" -> userFilter(outcome)

(***************************************************************************)
(* The registries.  "none": the map has no entry for the kind.             *)
(***************************************************************************)
MandatoryMutatingFunctions ==
    [ k \in SrcKinds |->
        CASE k = "persistentvolumes" -> "mutatePV"
          [] k = "pods"              -> "mutatePods"
          [] OTHER                   -> "none" ]

MandatoryFilteringFunctions ==
    [ k \in SrcKinds |-> IF k = "pods" THEN "filterPods" ELSE "none" ]

\* the Options the Service is constructed with: additional functions per kind
OptionChoices ==
    { [ AdditionalMutatingFunctions  |-> [ k \in {"namespaces"} |-> "userMutate" ],
        AdditionalFilteringFunctions |-> [ k \in {"namespaces"} |-> "userFilter" ] ] }

\* mutant: an additional entry does not replace a mandatory one
MergeKeepMandatory(base, additional) ==
    [ k \in DOMAIN base |->
        IF base[k] # "none" THEN base[k]
        ELSE IF k \in DOMAIN additional THEN additional[k] ELSE base[k] ]

\* New: the mandatory map with the additional entries written over it
Merge(base, additional) ==
    [ k \in DOMAIN base |-> IF k \in DOMAIN additional THEN additional[k] ELSE base[k] ]

New(options) ==
    [ mutatingFunctions  |-> Merge(MandatoryMutatingFunctions, options.AdditionalMutatingFunctions),
      filteringFunctions |-> Merge(MandatoryFilteringFunctions, options.AdditionalFilteringFunctions) ]

\* mutant: the version stamp is left on the object
removeUIDAndGeneration(resource) ==
    [ resource EXCEPT !.uid = 0, !.generation = 0 ]

removeUnnecessaryMetadata(resource) ==
    [ resource EXCEPT !.uid = 0, !.generation = 0, !.resourceVersion = 0 ]

(***************************************************************************)
(* The destination store, as the dynamic client shows it: Create fails     *)
(* with AlreadyExists, Update and Delete with NotFound; any call can also  *)
(* fail for another reason (fault).  The destination gives every object it *)
(* creates an identity of its own (negative numbers here, unlike any       *)
(* source UID).                                                            *)
(***************************************************************************)
DestIndex(store, gvr, namespace, name) ==
    IF gvr \in DOMAIN store
    THEN { i \in 1..Len(store[gvr]) :
             store[gvr][i].obj.namespace = namespace /\ store[gvr][i].obj.name = name }
    ELSE {}

DestHolds(store, gvr, namespace, name) == DestIndex(store, gvr, namespace, name) # {}

NoCall == << >>
Call(verb, gvr, namespace, name, obj) ==
    << [ verb |-> verb, gvr |-> gvr, namespace |-> namespace, name |-> name, obj |-> obj ] >>

DestCreate(store, seq, gvr, namespace, obj, fault) ==
    IF fault
    THEN [ store |-> store, seq |-> seq, err |-> Err("dest", "Other") ]
    ELSE IF DestHolds(store, gvr, namespace, obj.name)
    THEN [ store |-> store, seq |-> seq, err |-> Err("dest", "AlreadyExists") ]
    ELSE [ store |-> [ store EXCEPT ![gvr] = Append(@, [ obj |-> obj, id |-> 0 - (seq + 1) ]) ],
           seq   |-> seq + 1,
           err   |-> NoErr ]

DestUpdate(store, seq, gvr, namespace, obj, fault) ==
    IF fault
    THEN [ store |-> store, seq |-> seq, err |-> Err("dest", "Other") ]
    ELSE IF ~ DestHolds(store, gvr, namespace, obj.name)
    THEN [ store |-> store, seq |-> seq, err |-> Err("dest", "NotFound") ]
    ELSE LET i == CHOOSE i \in DestIndex(store, gvr, namespace, obj.name) : TRUE IN
         [ store |-> [ store EXCEPT ![gvr][i] = [ obj |-> obj, id |-> @.id ] ],
           seq   |-> seq,
           err   |-> NoErr ]

DestDelete(store, seq, gvr, namespace, name, fault) ==
    IF fault
    THEN [ store |-> store, seq |-> seq, err |-> Err("dest", "Other") ]
    ELSE IF ~ DestHolds(store, gvr, namespace, name)
    THEN [ store |-> store, seq |-> seq, err |-> Err("dest", "NotFound") ]
    ELSE LET kept(x) == ~ (x.obj.namespace = namespace /\ x.obj.name = name) IN
         [ store |-> [ store EXCEPT ![gvr] = SelectSeq(@, kept) ],
           seq   |-> seq,
           err   |-> NoErr ]


(***************************************************************************)
(* The Syncer's three write paths.  Each returns what the handler did:     *)
(*   fns   the filtering and mutating functions it called, with arguments  *)
(*   call  the destination call it issued (NoCall when it issued none)     *)
(*   err   the error it returned (NoErr for nil)                           *)
(*   store, seq  the destination afterwards                                *)
(* resolves: whether the RESTMapper maps the object's kind; fo, mo: the    *)
(* outcome of a caller-supplied function; fault: a destination failure.    *)
(***************************************************************************)
Outcome(fns, call, err, store, seq) ==
    [ fns |-> fns, call |-> call, err |-> err, store |-> store, seq |-> seq ]

FnCall(fn, arg) == [ fn |-> fn, arg |-> arg ]

\* findGVRForGVK: the resource name of the kind, or a resolution error
findGVRForGVK(resource, resolves) ==
    IF resolves
    THEN [ gvr |-> resource.kind, err |-> NoErr ]
    ELSE [ gvr |-> "", err |-> Err("resolve", "NoMatch") ]

\* mutant: the metadata is removed before the filtering function is called
createStrippingFirst(resource, mfs, ffs, srcStore, store, seq, resolves, fo, mo, fault) ==
    LET m == findGVRForGVK(resource, resolves) IN
    IF m.err # NoErr THEN Outcome(<< >>, NoCall, m.err, store, seq) ELSE
    LET gvr       == m.gvr
        namespace == resource.namespace
        stripped  == [ resource EXCEPT !.uid = 0, !.generation = 0, !.resourceVersion = 0 ]
        filtered  == ffs[gvr] # "none"
        f         == IF filtered
                     THEN FilteringFunction(ffs[gvr], stripped, Add, fo)
                     ELSE [ ok |-> TRUE, err |-> [ stage |-> "", class |-> "" ] ]
        fcalls    == IF filtered THEN << FnCall(ffs[gvr], stripped) >> ELSE << >>
    IN
    IF ~ f.ok \/ f.err.stage # "" THEN Outcome(fcalls, NoCall, f.err, store, seq) ELSE
    LET mutated  == mfs[gvr] # "none"
        mu       == IF mutated
                    THEN MutatingFunction(mfs[gvr], stripped, srcStore, mo)
                    ELSE [ obj |-> stripped, err |-> [ stage |-> "", class |-> "" ] ]
        calls    == IF mutated THEN fcalls \o << FnCall(mfs[gvr], stripped) >> ELSE fcalls
    IN
    IF mu.err.stage # "" THEN Outcome(calls, NoCall, mu.err, store, seq) ELSE
    LET d == DestCreate(store, seq, gvr, namespace, mu.obj, fault) IN
    Outcome(calls, Call("Create", gvr, namespace, mu.obj.name, mu.obj), d.err, d.store, d.seq)

createResourceOnDestinationCluster(resource, mfs, ffs, srcStore, store, seq, resolves, fo, mo, fault) ==
    LET m == findGVRForGVK(resource, resolves) IN
    IF m.err # NoErr THEN Outcome(<< >>, NoCall, m.err, store, seq) ELSE
    LET gvr       == m.gvr
        namespace == resource.namespace
        filtered  == ffs[gvr] # "none"
        f         == IF filtered
                     THEN FilteringFunction(ffs[gvr], resource, Add, fo)
                     ELSE [ ok |-> TRUE, err |-> NoErr ]
        fcalls    == IF filtered THEN << FnCall(ffs[gvr], resource) >> ELSE << >>
    IN
    IF ~ f.ok \/ f.err # NoErr THEN Outcome(fcalls, NoCall, f.err, store, seq) ELSE
    LET stripped == removeUnnecessaryMetadata(resource)
        mutated  == mfs[gvr] # "none"
        mu       == IF mutated
                    THEN MutatingFunction(mfs[gvr], stripped, srcStore, mo)
                    ELSE [ obj |-> stripped, err |-> NoErr ]
        calls    == IF mutated THEN fcalls \o << FnCall(mfs[gvr], stripped) >> ELSE fcalls
    IN
    IF mu.err # NoErr THEN Outcome(calls, NoCall, mu.err, store, seq) ELSE
    LET d == DestCreate(store, seq, gvr, namespace, mu.obj, fault) IN
    Outcome(calls, Call("Create", gvr, namespace, mu.obj.name, mu.obj), d.err, d.store, d.seq)

\* mutant: the update path removes the metadata as the create path does
updateStripping(resource, mfs, ffs, srcStore, store, seq, resolves, fo, mo, fault) ==
    LET m == findGVRForGVK(resource, resolves) IN
    IF m.err.stage # "" THEN Outcome(<< >>, NoCall, m.err, store, seq) ELSE
    LET gvr       == m.gvr
        namespace == resource.namespace
        filtered  == ffs[gvr] # "none"
        f         == IF filtered
                     THEN FilteringFunction(ffs[gvr], resource, Update, fo)
                     ELSE [ ok |-> TRUE, err |-> [ stage |-> "", class |-> "" ] ]
        fcalls    == IF filtered THEN << FnCall(ffs[gvr], resource) >> ELSE << >>
    IN
    IF ~ f.ok \/ f.err.stage # "" THEN Outcome(fcalls, NoCall, f.err, store, seq) ELSE
    LET stripped == removeUnnecessaryMetadata(resource)
        mutated  == mfs[gvr] # "none"
        mu       == IF mutated
                    THEN MutatingFunction(mfs[gvr], stripped, srcStore, mo)
                    ELSE [ obj |-> stripped, err |-> [ stage |-> "", class |-> "" ] ]
        calls    == IF mutated THEN fcalls \o << FnCall(mfs[gvr], stripped) >> ELSE fcalls
    IN
    IF mu.err.stage # "" THEN Outcome(calls, NoCall, mu.err, store, seq) ELSE
    LET d == DestUpdate(store, seq, gvr, namespace, mu.obj, fault) IN
    Outcome(calls, Call("Update", gvr, namespace, mu.obj.name, mu.obj), d.err, d.store, d.seq)

\* mutant: only an error of the filtering function stops the update, a
\* false result does not
updateIgnoringRejection(resource, mfs, ffs, srcStore, store, seq, resolves, fo, mo, fault) ==
    LET m == findGVRForGVK(resource, resolves) IN
    IF m.err # NoErr THEN Outcome(<< >>, NoCall, m.err, store, seq) ELSE
    LET gvr       == m.gvr
        namespace == resource.namespace
        filtered  == ffs[gvr] # "none"
        f         == IF filtered
                     THEN FilteringFunction(ffs[gvr], resource, Update, fo)
                     ELSE [ ok |-> TRUE, err |-> NoErr ]
        fcalls    == IF filtered THEN << FnCall(ffs[gvr], resource) >> ELSE << >>
    IN
    IF f.err # NoErr THEN Outcome(fcalls, NoCall, f.err, store, seq) ELSE
    LET mutated  == mfs[gvr] # "none"
        mu       == IF mutated
                    THEN MutatingFunction(mfs[gvr], resource, srcStore, mo)
                    ELSE [ obj |-> resource, err |-> NoErr ]
        calls    == IF mutated THEN fcalls \o << FnCall(mfs[gvr], resource) >> ELSE fcalls
    IN
    IF mu.err # NoErr THEN Outcome(calls, NoCall, mu.err, store, seq) ELSE
    LET d == DestUpdate(store, seq, gvr, namespace, mu.obj, fault) IN
    Outcome(calls, Call("Update", gvr, namespace, mu.obj.name, mu.obj), d.err, d.store, d.seq)

updateResourceOnDestinationCluster(resource, mfs, ffs, srcStore, store, seq, resolves, fo, mo, fault) ==
    LET m == findGVRForGVK(resource, resolves) IN
    IF m.err # NoErr THEN Outcome(<< >>, NoCall, m.err, store, seq) ELSE
    LET gvr       == m.gvr
        namespace == resource.namespace
        filtered  == ffs[gvr] # "none"
        f         == IF filtered
                     THEN FilteringFunction(ffs[gvr], resource, Update, fo)
                     ELSE [ ok |-> TRUE, err |-> NoErr ]
        fcalls    == IF filtered THEN << FnCall(ffs[gvr], resource) >> ELSE << >>
    IN
    IF ~ f.ok \/ f.err # NoErr THEN Outcome(fcalls, NoCall, f.err, store, seq) ELSE
    LET mutated  == mfs[gvr] # "none"
        mu       == IF mutated
                    THEN MutatingFunction(mfs[gvr], resource, srcStore, mo)
                    ELSE [ obj |-> resource, err |-> NoErr ]
        calls    == IF mutated THEN fcalls \o << FnCall(mfs[gvr], resource) >> ELSE fcalls
    IN
    IF mu.err # NoErr THEN Outcome(calls, NoCall, mu.err, store, seq) ELSE
    LET d == DestUpdate(store, seq, gvr, namespace, mu.obj, fault) IN
    Outcome(calls, Call("Update", gvr, namespace, mu.obj.name, mu.obj), d.err, d.store, d.seq)

\* mutant: the delete is issued under the object's kind before the kind is resolved
deleteBeforeResolving(resource, store, seq, resolves, fault) ==
    LET m == findGVRForGVK(resource, resolves)
        d == DestDelete(store, seq, resource.kind, resource.namespace, resource.name, fault)
    IN
    IF m.err.stage # ""
    THEN Outcome(<< >>, NoCall, m.err, d.store, d.seq)
    ELSE Outcome(<< >>, Call("Delete", m.gvr, resource.namespace, resource.name, BaseObj(m.gvr)),
                 d.err, d.store, d.seq)

\* mutant: the delete path applies the pods' placement filter as the update path does
deleteUnplacedOnly(resource, store, seq, resolves, fault) ==
    LET m == findGVRForGVK(resource, resolves) IN
    IF m.err # NoErr THEN Outcome(<< >>, NoCall, m.err, store, seq) ELSE
    IF resource.nodeName # ""
    THEN Outcome(<< FnCall("filterPods", resource) >>, NoCall, NoErr, store, seq)
    ELSE LET d == DestDelete(store, seq, m.gvr, resource.namespace, resource.name, fault) IN
         Outcome(<< >>, Call("Delete", m.gvr, resource.namespace, resource.name, BaseObj(m.gvr)),
                 d.err, d.store, d.seq)

deleteResourceOnDestinationCluster(resource, store, seq, resolves, fault) ==
    LET m == findGVRForGVK(resource, resolves) IN
    IF m.err # NoErr THEN Outcome(<< >>, NoCall, m.err, store, seq) ELSE
    LET gvr       == m.gvr
        namespace == resource.namespace
        d         == DestDelete(store, seq, gvr, namespace, resource.name, fault)
    IN
    \* Delete is called with the name alone: the call carries no object
    Outcome(<< >>, Call("Delete", gvr, namespace, resource.name, BaseObj(gvr)), d.err, d.store, d.seq)


(***************************************************************************)
(* The informer handlers.  The informer of a kind hands its events to the  *)
(* handlers one at a time, in the order it delivered them: the next event  *)
(* of kind k is the one after those already in log[k].  A handler logs the *)
(* error it got and returns; level is the severity of that log line.       *)
(***************************************************************************)
\* mutant: the consumer of a feed ends at the first event that met an error
PendingUntilError(k) ==
    /\ Len(log[k]) < Len(feed[k])
    /\ \A i \in 1..Len(log[k]) : log[k][i].err.stage = ""

Pending(k) == Len(log[k]) < Len(feed[k])

\* the outcomes a call of the kind's registered function can have
FilterChoices(k) ==
    IF filteringFunctions[k] = "userFilter" THEN UserFilterOutcomes ELSE { "accept" }
MutateChoices(k) ==
    IF mutatingFunctions[k] = "userMutate" THEN UserMutateOutcomes ELSE { "same" }
\* mutant: the handler is given the newest event of the feed
NewestEvent(k) == feed[k][Len(feed[k])]

NextEvent(k) == feed[k][Len(log[k]) + 1]

Entry(event, r, level) ==
    [ event |-> event, fns |-> r.fns, call |-> r.call, err |-> r.err, level |-> level ]

\* mutant: the handler writes the object it sent to the destination back to
\* the source store
HandledWritingBack(k, event, r, level) ==
    /\ dest' = r.store
    /\ destSeq' = r.seq
    /\ log' = [ log EXCEPT ![k] = Append(@, Entry(event, r, level)) ]
    /\ src' = IF r.call # NoCall /\ r.err.stage = "" /\ r.call[1].verb # "Delete"
              THEN [ src EXCEPT ![k] = << r.call[1].obj >> ]
              ELSE src
    /\ UNCHANGED << srcRV, feed, mutatingFunctions, filteringFunctions >>
    /\ UNCHANGED << recorderVars, journalFile, replayerVars, processVars >>

Handled(k, event, r, level) ==
    /\ dest' = r.store
    /\ destSeq' = r.seq
    /\ log' = [ log EXCEPT ![k] = Append(@, Entry(event, r, level)) ]
    /\ UNCHANGED << src, srcRV, feed, mutatingFunctions, filteringFunctions >>
    /\ UNCHANGED << recorderVars, journalFile, replayerVars, processVars >>

addFuncLevel(err) == IF err # NoErr THEN "error" ELSE "none"

updateFuncLevel(err) ==
    IF err # NoErr THEN (IF IsNotFound(err) THEN "info" ELSE "error") ELSE "none"

\* mutant: deleteFunc logs every error as a failure
deleteFuncLevelStrict(err) ==
    IF err.stage # "" THEN "error" ELSE "none"

deleteFuncLevel(err) ==
    IF err # NoErr THEN (IF IsNotFound(err) THEN "info" ELSE "error") ELSE "none"

addFunc(k) ==
    /\ Pending(k)
    /\ NextEvent(k).op = Add
    /\ \E resolves \in BOOLEAN, fault \in BOOLEAN,
          fo \in FilterChoices(k), mo \in MutateChoices(k) :
         LET r == createResourceOnDestinationCluster(
                      NextEvent(k).obj, mutatingFunctions, filteringFunctions,
                      src, dest, destSeq, resolves, fo, mo, fault)
         IN Handled(k, NextEvent(k), r, addFuncLevel(r.err))

updateFunc(k) ==
    /\ Pending(k)
    /\ NextEvent(k).op = Update
    /\ \E resolves \in BOOLEAN, fault \in BOOLEAN,
          fo \in FilterChoices(k), mo \in MutateChoices(k) :
         LET r == updateResourceOnDestinationCluster(
                      NextEvent(k).obj, mutatingFunctions, filteringFunctions,
                      src, dest, destSeq, resolves, fo, mo, fault)
         IN Handled(k, NextEvent(k), r, updateFuncLevel(r.err))

deleteFunc(k) ==
    /\ Pending(k)
    /\ NextEvent(k).op = Delete
    /\ \E resolves \in BOOLEAN, fault \in BOOLEAN :
         LET r == deleteResourceOnDestinationCluster(
                      NextEvent(k).obj, dest, destSeq, resolves, fault)
         IN Handled(k, NextEvent(k), r, deleteFuncLevel(r.err))

(***************************************************************************)
(* The environment: writes to the source store by its own users.  Every    *)
(* write gets a new revision and is delivered by the informer of the kind. *)
(* A Bound volume refers to its claim.                                     *)
(***************************************************************************)
Shapes(kind) ==
    CASE kind = "pods" ->
            { [ BaseObj(kind) EXCEPT !.nodeName = n, !.serviceAccountName = a,
                                     !.untyped = (a = "custom") ] :
                n \in NodeNames, a \in ServiceAccounts }
      [] kind = "persistentvolumes" ->
            { [ BaseObj(kind) EXCEPT !.phase = "Available" ],
              [ BaseObj(kind) EXCEPT !.phase = "Bound",
                    !.claimRef = << [ namespace |-> ObjNamespace("persistentvolumeclaims"),
                                      name      |-> ObjName("persistentvolumeclaims"),
                                      uid       |-> IF src["persistentvolumeclaims"] # << >>
                                                    THEN src["persistentvolumeclaims"][1].uid
                                                    ELSE Len(feed["persistentvolumeclaims"]) ] >> ] }
      [] OTHER -> { BaseObj(kind) }

Event(op, obj) == [ op |-> op, obj |-> obj ]

\* the revision a write of kind k gets (the store's revisions, told apart per
\* kind); a created object's UID is the revision of its creation
Revision(k) == Len(feed[k]) + 1

SrcWrite(k, op, stored, obj) ==
    /\ srcRV < MaxEvents
    /\ srcRV' = srcRV + 1
    /\ src' = [ src EXCEPT ![k] = stored ]
    /\ feed' = [ feed EXCEPT ![k] = Append(@, Event(op, obj)) ]
    /\ UNCHANGED << syncerVars, recorderVars, journalFile, replayerVars, processVars >>

SrcCreate(k) ==
    /\ src[k] = << >>
    /\ \E shape \in Shapes(k) :
         LET obj == [ shape EXCEPT !.uid = Revision(k), !.generation = 1,
                                   !.resourceVersion = Revision(k) ]
         IN SrcWrite(k, Add, << obj >>, obj)

SrcUpdate(k) ==
    /\ src[k] # << >>
    /\ \E shape \in Shapes(k) :
         LET obj == [ shape EXCEPT !.uid = src[k][1].uid,
                                   !.generation = src[k][1].generation + 1,
                                   !.resourceVersion = Revision(k) ]
         IN SrcWrite(k, Update, << obj >>, obj)

SrcDelete(k) ==
    /\ src[k] # << >>
    /\ SrcWrite(k, Delete, << >>, src[k][1])

(***************************************************************************)
(* The Syncer: the Service as constructed, and its steps.                  *)
(***************************************************************************)
IdleReplay == [ pc |-> "idle", records |-> << >>, idx |-> 0, creates |-> << >> ]

\* a Service as New returned it: its Options and what its two maps held then
Service(options, mfs, ffs) ==
    [ options            |-> options,
      gvrs               |-> MandatoryGVRs,
      mutatingFunctions  |-> mfs,
      filteringFunctions |-> ffs ]

\* Run before it is called, and once it has set up the informer of every kind
\* (cancelled: the context given to Run is done; taken: per kind, the number
\* of events the informer has handed to the handlers)
NotRunning ==
    [ called |-> FALSE, idx |-> 0, order |-> << >>, listed |-> {}, returned |-> FALSE,
      cancelled |-> FALSE, taken |-> [ k \in SrcKinds |-> 0 ] ]

Established ==
    [ called   |-> TRUE,
      idx      |-> Len(MandatoryGVRs),
      order    |-> MandatoryGVRs,
      listed   |-> { MandatoryGVRs[i] : i \in 1..Len(MandatoryGVRs) },
      returned |-> TRUE,
      cancelled |-> FALSE,
      taken    |-> [ k \in SrcKinds |-> 0 ] ]

\* the importer before ImportClusterResources is called
NoImport ==
    [ pc |-> "idle", idx |-> 0, order |-> << >>, items |-> << >>, spawned |-> << >>,
      inflight |-> {}, failed |-> {}, creates |-> {}, err |-> NoErr ]

\* no startSimulator in this process
NoSimulator ==
    [ pc |-> "none", ExternalImportEnabled |-> FALSE, ResourceSyncEnabled |-> FALSE,
      ExternalSchedulerEnabled |-> FALSE, scheduler |-> "none", err |-> NoErr ]

Init ==
    /\ src = [ k \in SrcKinds |-> << >> ]
    /\ srcRV = 0
    /\ feed = [ k \in SrcKinds |-> << >> ]
    /\ dest = [ k \in SrcKinds |-> << >> ]
    /\ destSeq = 0
    /\ \E options \in OptionChoices :
         /\ mutatingFunctions = New(options).mutatingFunctions
         /\ filteringFunctions = New(options).filteringFunctions
         /\ services = << Service(options, New(options).mutatingFunctions,
                                  New(options).filteringFunctions) >>
    /\ run = Established
    /\ importer = NoImport
    /\ sim = NoSimulator
    /\ log = [ k \in SrcKinds |-> << >> ]
    /\ buffer = << >>
    /\ journalFile = << >>
    /\ recorded = [ k \in SrcKinds |-> 0 ]
    /\ recRunning = [ k \in SrcKinds |-> FALSE ]
    /\ recOverlap = FALSE
    /\ replay = IdleReplay
    /\ runs = << >>

Next ==
    \E k \in SrcKinds :
        \/ SrcCreate(k)
        \/ SrcUpdate(k)
        \/ SrcDelete(k)
        \/ addFunc(k)
        \/ updateFunc(k)
        \/ deleteFunc(k)

Spec == Init /\ [][Next]_vars


\* the informer's goroutine keeps calling the handlers while events are pending
Handler(k) == addFunc(k) \/ updateFunc(k) \/ deleteFunc(k)

SpecFair == Spec /\ \A k \in SrcKinds : WF_vars(Handler(k))

(***************************************************************************)
(* Reading the handlers' log.                                              *)
(***************************************************************************)
Entries(k) == { log[k][i] : i \in 1..Len(log[k]) }
AllEntries == UNION { Entries(k) : k \in SrcKinds }
Placed(e) == e.event.obj.nodeName # ""
Wrote(e) == e.call # NoCall /\ e.call[1].verb \in { "Create", "Update" }
Applied(e) == e.call # NoCall /\ e.err = NoErr
Stripped(obj) == obj.uid = 0 /\ obj.generation = 0 /\ obj.resourceVersion = 0
Max(S) == CHOOSE x \in S : \A y \in S : y <= x

(***************************************************************************)
(* C1  Placement suppression.  An Update event of a pod that has a node    *)
(* assignment causes no destination write.  After Add(unplaced),           *)
(* Update(unplaced)*, Update(placed)* the destination pod has the shape of *)
(* the last unplaced event that was applied (the last unplaced event when  *)
(* no write was dropped on an error) and no node assignment; it is absent  *)
(* only when the Add itself was dropped on an error.                       *)
(***************************************************************************)
PodShape(e) ==
    LET o == [ e.event.obj EXCEPT !.serviceAccountName = "default", !.untyped = FALSE ] IN
    IF e.event.op = Add
    THEN [ o EXCEPT !.uid = 0, !.generation = 0, !.resourceVersion = 0 ]
    ELSE o

PlacementPattern(L) ==
    /\ Len(L) >= 1
    /\ L[1].event.op = Add /\ ~ Placed(L[1])
    /\ \A i \in 2..Len(L) : L[i].event.op = Update
    /\ \A i, j \in 2..Len(L) : (i < j /\ Placed(L[i])) => Placed(L[j])

C1_PlacementSuppression ==
    LET L == log["pods"] IN
    /\ \A i \in 1..Len(L) :
          (L[i].event.op = Update /\ Placed(L[i])) => L[i].call = NoCall
    /\ PlacementPattern(L) =>
          LET applied == { i \in 1..Len(L) : Applied(L[i]) } IN
          IF L[1].err # NoErr
          THEN dest["pods"] = << >>
          ELSE /\ dest["pods"] # << >>
               /\ ~ Placed(L[Max(applied)])
               /\ dest["pods"][1].obj = PodShape(L[Max(applied)])
               /\ dest["pods"][1].obj.nodeName = ""

\* Add(unplaced), Update(unplaced), Update(placed) were all handled, none
\* dropped, and the destination still has the shape of the second event
C1_Witness ==
    LET L == log["pods"] IN
    /\ Len(L) = 3
    /\ PlacementPattern(L)
    /\ \A i \in 1..3 : L[i].err = NoErr
    /\ ~ Placed(L[2]) /\ Placed(L[3])
    /\ L[2].event.obj.serviceAccountName = "custom"
    /\ dest["pods"][1].obj = PodShape(L[2])

(***************************************************************************)
(* C2  Identity stripping, as claimed: every object passed to Create for   *)
(* an Add event has empty UID, generation 0 and empty resourceVersion,     *)
(* whatever functions are registered.                                      *)
(***************************************************************************)
C2_Original ==
    \A e \in AllEntries :
        (e.event.op = Add /\ e.call # NoCall) => Stripped(e.call[1].obj)

(***************************************************************************)
(* C2  Identity stripping, amended: for every Add event turned into a      *)
(* Create, whatever filtering function is registered, the object handed to *)
(* the kind's mutating function, or to Create when the kind has none, has  *)
(* empty UID, generation 0 and empty resourceVersion, and the built-in     *)
(* mutating functions keep them empty.                                     *)
(***************************************************************************)
MutatingCalls(e) ==
    { i \in 1..Len(e.fns) : e.fns[i].fn \in { "mutatePV", "mutatePods", "userMutate" } }

C2_IdentityStripping ==
    \A e \in AllEntries :
        (e.event.op = Add /\ e.call # NoCall) =>
            /\ \A i \in MutatingCalls(e) : Stripped(e.fns[i].arg)
            /\ (\A i \in MutatingCalls(e) : e.fns[i].fn # "userMutate")
                  => Stripped(e.call[1].obj)

\* an Add of an object with a source identity passed a registered filter and
\* mutating function and reached Create
C2_Witness ==
    \E e \in AllEntries :
        /\ e.event.op = Add /\ e.call # NoCall
        /\ e.event.obj.uid # 0 /\ e.event.obj.resourceVersion # 0
        /\ Len(e.fns) = 2
        /\ Stripped(e.call[1].obj)

(***************************************************************************)
(* C3  Delete bypass.  A Delete event calls no filtering and no mutating   *)
(* function; when its kind resolves the handler issues one destination     *)
(* Delete on the event object's namespace and name, also for a pod with a  *)
(* node assignment, and none when the kind does not resolve.  Each         *)
(* delivered event is handled once.                                        *)
(***************************************************************************)
C3_DeleteBypass ==
    \A k \in SrcKinds :
        \A i \in 1..Len(log[k]) :
            LET e == log[k][i] IN
            /\ e.event = feed[k][i]
            /\ e.event.op = Delete =>
                  /\ e.fns = << >>
                  /\ IF e.err.stage = "resolve"
                     THEN e.call = NoCall
                     ELSE /\ e.call # NoCall
                          /\ e.call[1].verb = "Delete"
                          /\ e.call[1].gvr = e.event.obj.kind
                          /\ e.call[1].namespace = e.event.obj.namespace
                          /\ e.call[1].name = e.event.obj.name

\* a placed pod was deleted on the source and removed from the destination
C3_Witness ==
    \E e \in Entries("pods") :
        /\ e.event.op = Delete /\ Placed(e)
        /\ e.call # NoCall /\ e.err = NoErr
        /\ dest["pods"] = << >>

(***************************************************************************)
(* C4  Reference rewrite, as claimed: when the destination holds the claim *)
(* of a Bound volume under another identity than the source does, the      *)
(* volume written to the destination refers to the destination's identity  *)
(* of the claim.                                                           *)
(***************************************************************************)
C4_ReferenceRewrite ==
    [][ LET L == log'["persistentvolumes"] IN
        (Len(L) = Len(log["persistentvolumes"]) + 1) =>
            LET e == L[Len(L)] IN
            ( /\ Wrote(e)
              /\ e.call[1].obj.phase = "Bound"
              /\ src["persistentvolumeclaims"] # << >>
              /\ dest["persistentvolumeclaims"] # << >>
              /\ dest["persistentvolumeclaims"][1].id # src["persistentvolumeclaims"][1].uid )
            => e.call[1].obj.claimRef[1].uid = dest["persistentvolumeclaims"][1].id
      ]_vars

(***************************************************************************)
(* C10  Syncer liveness under errors.  Every delivered event is handled    *)
(* once, in feed order, whatever errors the events before it met: an       *)
(* errored event is logged and dropped, the handlers stay enabled while    *)
(* events are pending, and every event of a feed is eventually handled.    *)
(***************************************************************************)
HandledInOrder ==
    \A k \in SrcKinds :
        /\ Len(log[k]) <= Len(feed[k])
        /\ \A i \in 1..Len(log[k]) : log[k][i].event = feed[k][i]
        /\ (Len(log[k]) < Len(feed[k])) => ENABLED Handler(k)

C10_LivenessUnderErrors ==
    /\ []HandledInOrder
    /\ \A k \in SrcKinds : (Len(log[k]) < Len(feed[k])) ~> (Len(log[k]) = Len(feed[k]))

\* an event was dropped on an error and the next event of the same feed was
\* handled and applied
C10_Witness ==
    \E k \in SrcKinds :
        \E i, j \in 1..Len(log[k]) :
            /\ i < j
            /\ log[k][i].err # NoErr /\ log[k][i].level = "error"
            /\ Applied(log[k][j])


(***************************************************************************)
(* The Journal file: a JSON array of {event, resource} records, written    *)
(* and read as a whole.  A Record of the program has the fields Event and  *)
(* Resource.                                                               *)
(***************************************************************************)
Record(event, resource) == [ Event |-> event, Resource |-> resource ]

\* json.Marshal of the records / json.Unmarshal of the file
Marshal(records) ==
    [ i \in 1..Len(records) |->
        [ event |-> records[i].Event, resource |-> records[i].Resource ] ]

Unmarshal(file) ==
    [ i \in 1..Len(file) |-> Record(file[i].event, file[i].resource) ]

(***************************************************************************)
(* The Recorder.  One task per kind takes the kind's events in feed order; *)
(* the handler of an event appends its record to the buffer and then       *)
(* flushes the whole buffer to the Journal file, replacing the file.  No   *)
(* filtering and no mutation is applied.                                   *)
(***************************************************************************)
\* mutant: the handler writes only its own record to the file
FlushLast(records) ==
    IF records = << >> THEN << >> ELSE Marshal(<< records[Len(records)] >>)

\* the file content a flush of the buffer produces
Flush(records) == Marshal(records)

\* mutant: the newest record is put in front of the buffer
Prepend(records, event) == << Record(event.op, event.obj) >> \o records

\* mutant: the Recorder applies the Syncer's pipeline to what it records
AppendRecordPipelined(records, event) ==
    IF event.obj.kind = "pods" /\ event.op = "Update" /\ event.obj.nodeName # ""
    THEN records
    ELSE Append(records,
                Record(event.op,
                       [ event.obj EXCEPT !.uid = 0, !.generation = 0, !.resourceVersion = 0 ]))

\* the buffer after the record of an event is appended
AppendRecord(records, event) == Append(records, Record(event.op, event.obj))

RecordAppend(k) ==
    /\ ~ recRunning[k]
    /\ recorded[k] < Len(feed[k])
    /\ buffer' = AppendRecord(buffer, feed[k][recorded[k] + 1])
    /\ recorded' = [ recorded EXCEPT ![k] = @ + 1 ]
    /\ recRunning' = [ recRunning EXCEPT ![k] = TRUE ]
    /\ recOverlap' = (recOverlap \/ \E j \in SrcKinds : j # k /\ recRunning[j])
    /\ UNCHANGED << src, srcRV, feed, syncerVars, journalFile, replayerVars, processVars >>

RecordFlush(k) ==
    /\ recRunning[k]
    /\ journalFile' = Flush(buffer)
    /\ recRunning' = [ recRunning EXCEPT ![k] = FALSE ]
    /\ UNCHANGED << src, srcRV, feed, syncerVars, buffer, recorded, recOverlap, replayerVars, processVars >>

NextRecorder ==
    \E k \in SrcKinds :
        \/ SrcCreate(k)
        \/ SrcUpdate(k)
        \/ SrcDelete(k)
        \/ RecordAppend(k)
        \/ RecordFlush(k)

SpecRecorder == Init /\ [][NextRecorder]_vars

(***************************************************************************)
(* The Resource Applier's Create and the Replayer.  Replay reads the whole *)
(* Journal and goes through its records in file order: an Add record is    *)
(* created on the destination; AlreadyExists is ignored, any other error   *)
(* ends the Replay with that error.                                        *)
(***************************************************************************)
MaxJournal == 3
MaxReplays == 2

\* the records a Journal of this model is made of
JournalRecords ==
    { Record(Add, [ BaseObj("pods") EXCEPT !.uid = 1, !.resourceVersion = 1 ]),
      Record(Update, [ BaseObj("pods") EXCEPT !.uid = 1, !.resourceVersion = 2,
                                               !.nodeName = "node-1" ]),
      Record(Delete, [ BaseObj("pods") EXCEPT !.uid = 1, !.resourceVersion = 2,
                                               !.nodeName = "node-1" ]),
      Record(Add, [ BaseObj("persistentvolumeclaims") EXCEPT !.uid = 1, !.resourceVersion = 1 ]) }

Journals ==
    UNION { [ 1..n -> JournalRecords ] : n \in 0..MaxJournal }

\* mutant: Create replaces an object the destination already holds
ApplierCreateOrReplace(store, seq, resource, resolves, fault) ==
    LET m == findGVRForGVK(resource, resolves) IN
    IF m.err # NoErr
    THEN [ store |-> store, seq |-> seq, err |-> m.err ]
    ELSE DestCreate([ store EXCEPT ![m.gvr] = << >> ], seq, m.gvr,
                    resource.namespace, resource, fault)

\* mutant: Create removes the source's metadata from the object it writes
ApplierCreateStripped(store, seq, resource, resolves, fault) ==
    LET m == findGVRForGVK(resource, resolves) IN
    IF m.err.stage # ""
    THEN [ store |-> store, seq |-> seq, err |-> m.err ]
    ELSE DestCreate(store, seq, m.gvr, resource.namespace,
                    [ resource EXCEPT !.uid = 0, !.generation = 0, !.resourceVersion = 0 ],
                    fault)

\* the Resource Applier's Create: resolve the kind, then Create the object
\* as it is on the destination
ApplierCreate(store, seq, resource, resolves, fault) ==
    LET m == findGVRForGVK(resource, resolves) IN
    IF m.err # NoErr
    THEN [ store |-> store, seq |-> seq, err |-> m.err ]
    ELSE DestCreate(store, seq, m.gvr, resource.namespace, resource, fault)

\* mutant: AlreadyExists ends the Replay like any other error
ReplayFatalAny(err) == err # NoErr

\* whether an error of Create ends the Replay
ReplayFatal(err) == err # NoErr /\ ~ IsAlreadyExists(err)

\* whether Replay calls Create for a record
ReplayCreates(record) == record.Event = Add

\* mutant: Replay goes through the records from the last to the first
ReplayPickReversed(records, idx) == records[Len(records) - idx]

\* the record Replay handles after it has gone through idx records
ReplayPick(records, idx) == records[idx + 1]

Run(r, err, store) ==
    [ creates |-> r.creates, err |-> err, dest |-> store, journal |-> r.records ]

ReplayStart ==
    /\ replay.pc = "idle"
    /\ Len(runs) < MaxReplays
    /\ replay' = [ pc |-> "running", records |-> Unmarshal(journalFile),
                   idx |-> 0, creates |-> << >> ]
    /\ UNCHANGED << src, srcRV, feed, syncerVars, recorderVars, journalFile, runs, processVars >>

ReplayRecord ==
    /\ replay.pc = "running"
    /\ replay.idx < Len(replay.records)
    /\ LET record == ReplayPick(replay.records, replay.idx) IN
       IF ReplayCreates(record)
       THEN \E resolves \in BOOLEAN, fault \in BOOLEAN :
              LET c  == ApplierCreate(dest, destSeq, record.Resource, resolves, fault)
                  cs == Append(replay.creates, [ obj |-> record.Resource, err |-> c.err ])
              IN
              /\ dest' = c.store
              /\ destSeq' = c.seq
              /\ IF ReplayFatal(c.err)
                 THEN /\ replay' = IdleReplay
                      /\ runs' = Append(runs, Run([ replay EXCEPT !.creates = cs ], c.err, c.store))
                 ELSE /\ replay' = [ replay EXCEPT !.idx = @ + 1, !.creates = cs ]
                      /\ runs' = runs
       ELSE /\ replay' = [ replay EXCEPT !.idx = @ + 1 ]
            /\ UNCHANGED << dest, destSeq, runs >>
    /\ UNCHANGED << src, srcRV, feed, mutatingFunctions, filteringFunctions, log,
                    recorderVars, journalFile, processVars >>

ReplayReturn ==
    /\ replay.pc = "running"
    /\ replay.idx = Len(replay.records)
    /\ replay' = IdleReplay
    /\ runs' = Append(runs, Run(replay, NoErr, dest))
    /\ UNCHANGED << src, srcRV, feed, syncerVars, recorderVars, journalFile, processVars >>

InitReplayer ==
    /\ src = [ k \in SrcKinds |-> << >> ]
    /\ srcRV = 0
    /\ feed = [ k \in SrcKinds |-> << >> ]
    /\ dest = [ k \in SrcKinds |-> << >> ]
    /\ destSeq = 0
    /\ \E options \in OptionChoices :
         /\ mutatingFunctions = New(options).mutatingFunctions
         /\ filteringFunctions = New(options).filteringFunctions
         /\ services = << Service(options, New(options).mutatingFunctions,
                                  New(options).filteringFunctions) >>
    /\ run = NotRunning
    /\ importer = NoImport
    /\ sim = NoSimulator
    /\ log = [ k \in SrcKinds |-> << >> ]
    /\ buffer = << >>
    /\ journalFile \in { Marshal(j) : j \in Journals }
    /\ recorded = [ k \in SrcKinds |-> 0 ]
    /\ recRunning = [ k \in SrcKinds |-> FALSE ]
    /\ recOverlap = FALSE
    /\ replay = IdleReplay
    /\ runs = << >>

NextReplayer == ReplayStart \/ ReplayRecord \/ ReplayReturn

SpecReplayer == InitReplayer /\ [][NextReplayer]_vars


(***************************************************************************)
(* Reading the Recorder's and the Replayer's state                         *)
(***************************************************************************)
RECURSIVE SumOver(_, _)
SumOver(f, S) ==
    IF S = {} THEN 0
    ELSE LET k == CHOOSE x \in S : TRUE IN f[k] + SumOver(f, S \ {k})

\* the records of one kind, in the order they have in a sequence of records
OfKind(records, k) ==
    LET isK(r) == r.Resource.kind = k IN SelectSeq(records, isK)

\* the first n events of a feed, as records
Observed(k, n) == [ i \in 1..n |-> Record(feed[k][i].op, feed[k][i].obj) ]

RecorderIdle == \A k \in SrcKinds : ~ recRunning[k]

RecorderDone == RecorderIdle /\ \A k \in SrcKinds : recorded[k] = Len(feed[k])

\* the Add records of a Journal, in file order
AddRecords(records) ==
    LET isAdd(r) == r.Event = Add IN SelectSeq(records, isAdd)

Fatal(c) == c.err # NoErr /\ ~ IsAlreadyExists(c.err)

IsPrefix(s, t) == Len(s) <= Len(t) /\ \A i \in 1..Len(s) : s[i] = t[i]

Created(creates) == [ i \in 1..Len(creates) |-> creates[i].obj ]

\* C5: Journal order preservation.  Once every handler has completed, the
\* Journal read back holds exactly one record per observed event, and the
\* records of an object are the operations and objects of its events, in
\* the order the events were observed (Add, Updates, then the Delete).
C5_JournalOrderPreservation ==
    RecorderDone =>
        LET got == Unmarshal(journalFile) IN
        /\ Len(got) = SumOver([ k \in SrcKinds |-> Len(feed[k]) ], SrcKinds)
        /\ \A k \in SrcKinds : OfKind(got, k) = Observed(k, Len(feed[k]))
        /\ \A k \in SrcKinds :
             (\A j \in SrcKinds \ {k} : feed[j] = << >>) => got = Observed(k, Len(feed[k]))

C5_Witness ==
    /\ RecorderDone
    /\ Len(feed["pods"]) = MaxEvents
    /\ feed["pods"][1].op = Add
    /\ feed["pods"][2].op = Update
    /\ feed["pods"][MaxEvents].op = Delete
    /\ Len(journalFile) = MaxEvents

C7_ReplayerErrorPolicy ==
    /\ \A i \in 1..Len(replay.creates) : ~ Fatal(replay.creates[i])
    /\ \A n \in 1..Len(runs) :
         LET r == runs[n] IN
         /\ \A i \in 1..Len(r.creates) :
              Fatal(r.creates[i]) => (i = Len(r.creates) /\ r.err = r.creates[i].err)
         /\ r.err # NoErr =>
              (r.creates # << >> /\ Fatal(r.creates[Len(r.creates)])
                 /\ r.err = r.creates[Len(r.creates)].err)
         /\ r.err = NoErr => Len(r.creates) = Len(AddRecords(r.journal))

C7_Witness ==
    /\ \E n \in 1..Len(runs) :
         /\ runs[n].err = NoErr
         /\ \E i \in 1..Len(runs[n].creates) :
              IsAlreadyExists(runs[n].creates[i].err) /\ i < Len(runs[n].creates)
    /\ \E n \in 1..Len(runs) :
         /\ runs[n].err # NoErr
         /\ Len(runs[n].creates) < Len(AddRecords(runs[n].journal))

\* C8: Idempotent replay.  After a Journal was replayed against an empty
\* destination, a second Replay of it leaves the destination exactly as
\* the first left it, every Create of the second Replay that the
\* destination answers is answered AlreadyExists, and the second Replay
\* returns no error unless a Create failed with another error.
C8_IdempotentReplay ==
    Len(runs) = MaxReplays =>
        LET first == runs[1]  second == runs[MaxReplays] IN
        /\ second.journal = first.journal
        /\ first.err = NoErr =>
             /\ second.dest = first.dest
             /\ \A i \in 1..Len(second.creates) : second.creates[i].err # NoErr
             /\ (\A i \in 1..Len(second.creates) : ~ Fatal(second.creates[i])) =>
                  /\ second.err = NoErr
                  /\ Len(second.creates) = Len(first.creates)
                  /\ \A i \in 1..Len(second.creates) :
                       IsAlreadyExists(second.creates[i].err)

C8_Witness ==
    /\ Len(runs) = MaxReplays
    /\ runs[1].err = NoErr
    /\ runs[MaxReplays].err = NoErr
    /\ Len(runs[MaxReplays].creates) >= 2
    /\ \E k \in SrcKinds : runs[MaxReplays].dest[k] # << >>

\* C9: Replay order.  The Creates of a Replay are the Add records of the
\* Journal, one Create per Add record, in file order; no Create is issued
\* for an Update or a Delete record; a Replay that returns no error has
\* issued exactly as many Creates as the Journal has Add records.
C9_ReplayOrder ==
    /\ replay.pc = "running" =>
         Created(replay.creates)
            = [ i \in 1..Len(replay.creates) |->
                  AddRecords(SubSeq(replay.records, 1, replay.idx))[i].Resource ]
    /\ \A n \in 1..Len(runs) :
         LET r    == runs[n]
             adds == [ i \in 1..Len(AddRecords(r.journal)) |-> AddRecords(r.journal)[i].Resource ]
         IN
         /\ IsPrefix(Created(r.creates), adds)
         /\ r.err = NoErr => Created(r.creates) = adds

C9_Witness ==
    \E n \in 1..Len(runs) :
        /\ runs[n].err = NoErr
        /\ Len(runs[n].journal) = MaxJournal
        /\ runs[n].journal[2].Event # Add
        /\ Len(runs[n].creates) = 2
        /\ runs[n].creates[1].obj # runs[n].creates[2].obj


(***************************************************************************)
(* C11  Benign conflicts, as claimed: an Update the destination answers    *)
(* NotFound and a Create the destination answers AlreadyExists are not     *)
(* logged at error level, and the event leaves the destination as it was.  *)
(***************************************************************************)
Conflict(e) ==
    /\ e.call # NoCall
    /\ e.err.stage = "dest"
    /\ \/ e.call[1].verb = "Update" /\ IsNotFound(e.err)
       \/ e.call[1].verb = "Create" /\ IsAlreadyExists(e.err)

C11_BenignConflicts ==
    [][ \A k \in SrcKinds :
          (Len(log'[k]) = Len(log[k]) + 1) =>
              LET e == log'[k][Len(log'[k])] IN
              Conflict(e) => (e.level # "error" /\ dest' = dest /\ destSeq' = destSeq)
      ]_vars

(***************************************************************************)
(* C16  Filter short-circuit.  On an Add or Update event whose kind has a  *)
(* filtering function, the function is the first of the pipeline to be     *)
(* called, with the object of the event.  When it returns false without an *)
(* error the handler returns no error, logs nothing, calls no mutating     *)
(* function and issues no destination call; when it returns an error the   *)
(* handler logs that error and calls no mutating function and issues no    *)
(* destination call.  The destination is written only after the filtering  *)
(* function accepted.                                                      *)
(***************************************************************************)
Filters == { "filterPods", "userFilter" }

FilterCalls(e) == { i \in 1..Len(e.fns) : e.fns[i].fn \in Filters }

\* the handler returned at the filtering function
StoppedAtFilter(e) ==
    /\ Len(e.fns) = 1
    /\ e.fns[1].fn \in Filters
    /\ e.call = NoCall

C16_FilterShortCircuit ==
    \A k \in SrcKinds : \A e \in Entries(k) :
        (e.event.op \in { Add, Update } /\ e.err.stage # "resolve") =>
            /\ (filteringFunctions[k] # "none") =>
                  (e.fns # << >> /\ e.fns[1] = FnCall(filteringFunctions[k], e.event.obj))
            /\ FilterCalls(e) \subseteq { 1 }
            /\ (e.fns # << >> /\ e.fns[1].fn = "filterPods"
                  /\ ~ filterPods(e.fns[1].arg, e.event.op).ok) =>
                  (StoppedAtFilter(e) /\ e.err = NoErr)
            /\ StoppedAtFilter(e) =>
                  /\ e.err.stage \in { "", "filter" }
                  /\ (e.err = NoErr) => e.level = "none"
                  /\ (e.err # NoErr) => e.level = "error"
            /\ (e.err.stage = "filter") => StoppedAtFilter(e)

\* a filtering function rejected an Update, another failed on an Add, and
\* neither event reached a mutating function or the destination
C16_Witness ==
    /\ \E e \in Entries("pods") :
         e.event.op = Update /\ StoppedAtFilter(e) /\ e.err = NoErr
    /\ \E e \in Entries("namespaces") :
         e.event.op = Add /\ StoppedAtFilter(e) /\ e.err.stage = "filter"

MaxServices == 2

OverridableKinds == { "namespaces", "pods" }

\* Options with additional functions for any of the kinds
ServiceOptions ==
    { [ AdditionalMutatingFunctions  |-> [ k \in mk |-> "userMutate" ],
        AdditionalFilteringFunctions |-> [ k \in fk |-> "userFilter" ] ] :
      mk \in SUBSET OverridableKinds, fk \in SUBSET OverridableKinds }

\* what the maps of a Service hold now
Registry(service) ==
    [ mutatingFunctions |-> mutatingFunctions, filteringFunctions |-> filteringFunctions ]

NewService ==
    /\ Len(services) < MaxServices
    /\ \E options \in ServiceOptions :
         LET mfs == Merge(mutatingFunctions, options.AdditionalMutatingFunctions)
             ffs == Merge(filteringFunctions, options.AdditionalFilteringFunctions)
         IN
         /\ mutatingFunctions' = mfs
         /\ filteringFunctions' = ffs
         /\ services' = Append(services, Service(options, mfs, ffs))
    /\ UNCHANGED << src, srcRV, feed, dest, destSeq, log, recorderVars, journalFile,
                    replayerVars, run, importer, sim >>

\* the package as initialised: the maps hold the mandatory entries, New has
\* not been called
InitPackage ==
    /\ src = [ k \in SrcKinds |-> << >> ]
    /\ srcRV = 0
    /\ feed = [ k \in SrcKinds |-> << >> ]
    /\ dest = [ k \in SrcKinds |-> << >> ]
    /\ destSeq = 0
    /\ mutatingFunctions = MandatoryMutatingFunctions
    /\ filteringFunctions = MandatoryFilteringFunctions
    /\ services = << >>
    /\ run = NotRunning
    /\ importer = NoImport
    /\ sim = NoSimulator
    /\ log = [ k \in SrcKinds |-> << >> ]
    /\ buffer = << >>
    /\ journalFile = << >>
    /\ recorded = [ k \in SrcKinds |-> 0 ]
    /\ recRunning = [ k \in SrcKinds |-> FALSE ]
    /\ recOverlap = FALSE
    /\ replay = IdleReplay
    /\ runs = << >>

NextNew == NewService

SpecNew == InitPackage /\ [][NextNew]_vars

\* one Service, constructed with no additional function, with an additional
\* filtering function for pods or with an additional mutating function for
\* pods, syncing the pods of the source as they are added and updated
PodOptions ==
    { o \in ServiceOptions :
        /\ DOMAIN o.AdditionalMutatingFunctions \subseteq { "pods" }
        /\ DOMAIN o.AdditionalFilteringFunctions \subseteq { "pods" }
        /\ (DOMAIN o.AdditionalMutatingFunctions = {}
              \/ DOMAIN o.AdditionalFilteringFunctions = {}) }

InitOverride ==
    /\ src = [ k \in SrcKinds |-> << >> ]
    /\ srcRV = 0
    /\ feed = [ k \in SrcKinds |-> << >> ]
    /\ dest = [ k \in SrcKinds |-> << >> ]
    /\ destSeq = 0
    /\ \E options \in PodOptions :
         /\ mutatingFunctions = New(options).mutatingFunctions
         /\ filteringFunctions = New(options).filteringFunctions
         /\ services = << Service(options, New(options).mutatingFunctions,
                                  New(options).filteringFunctions) >>
    /\ run = Established
    /\ importer = NoImport
    /\ sim = NoSimulator
    /\ log = [ k \in SrcKinds |-> << >> ]
    /\ buffer = << >>
    /\ journalFile = << >>
    /\ recorded = [ k \in SrcKinds |-> 0 ]
    /\ recRunning = [ k \in SrcKinds |-> FALSE ]
    /\ recOverlap = FALSE
    /\ replay = IdleReplay
    /\ runs = << >>

NextPods ==
    \/ SrcCreate("pods")
    \/ SrcUpdate("pods")
    \/ addFunc("pods")
    \/ updateFunc("pods")

SpecOverride == InitOverride /\ [][NextPods]_vars

(***************************************************************************)
(* C14  Mandatory pipeline entries.                                        *)
(***************************************************************************)
\* the function the caller's Options leave registered for a kind
Registered(mandatory, additional, k) ==
    IF k \in DOMAIN additional THEN additional[k] ELSE mandatory[k]

PipelineEntries(k) ==
    { e \in Entries(k) : e.event.op \in { Add, Update } /\ e.err.stage # "resolve" }

C15_RegistryImmutability ==
    /\ \A i \in 1..Len(services) :
         /\ Registry(services[i]).mutatingFunctions = services[i].mutatingFunctions
         /\ Registry(services[i]).filteringFunctions = services[i].filteringFunctions
    /\ mutatingFunctions = MandatoryMutatingFunctions
    /\ filteringFunctions = MandatoryFilteringFunctions


(***************************************************************************)
(* Service.Run.  For each kind of s.gvrs, in order: take the kind's        *)
(* informer from the factory, add the three handlers, start the informer   *)
(* in a goroutine of its own (go inf.Run) and call the factory's           *)
(* WaitForCacheSync.  The factory waits for the informers it has started   *)
(* itself (infFact.Start); Run starts every informer directly, so the      *)
(* factory has started none.  A started informer lists the kind's objects  *)
(* and delivers an Add for each to the handlers.                           *)
(***************************************************************************)
\* the kinds whose informer the factory's Start has started
FactoryStarted == {}

\* infFact.WaitForCacheSync returns once every informer the factory started
\* has listed
WaitForCacheSync(listed) == FactoryStarted \subseteq listed

\* the kinds whose informer Run has started so far
RunStarted == { MandatoryGVRs[i] : i \in 1..run.idx }

RunLoop ==
    /\ run.called
    /\ run.idx < Len(MandatoryGVRs)
    /\ WaitForCacheSync(run.listed)
    /\ run' = [ run EXCEPT !.idx = @ + 1, !.order = Append(@, MandatoryGVRs[run.idx + 1]) ]
    /\ UNCHANGED << src, srcRV, feed, syncerVars, recorderVars, journalFile, replayerVars,
                    services, importer, sim >>

\* mutant: Run returns when the context is done
RunReturnOnDone ==
    /\ run.called
    /\ run.idx = Len(MandatoryGVRs)
    /\ ~ run.returned
    /\ run.cancelled
    /\ run' = [ run EXCEPT !.returned = TRUE ]
    /\ UNCHANGED << src, srcRV, feed, syncerVars, recorderVars, journalFile, replayerVars,
                    services, importer, sim >>

RunReturn ==
    /\ run.called
    /\ run.idx = Len(MandatoryGVRs)
    /\ ~ run.returned
    /\ WaitForCacheSync(run.listed)
    /\ run' = [ run EXCEPT !.returned = TRUE ]
    /\ UNCHANGED << src, srcRV, feed, syncerVars, recorderVars, journalFile, replayerVars,
                    services, importer, sim >>

\* mutant: an informer that watches without listing what the source holds
InformerListWatchOnly(k) ==
    /\ k \in RunStarted
    /\ k \notin run.listed
    /\ run' = [ run EXCEPT !.listed = @ \cup { k } ]
    /\ UNCHANGED << src, srcRV, feed, syncerVars, recorderVars, journalFile, replayerVars,
                    services, importer, sim >>

\* the initial listing of a started informer
InformerList(k) ==
    /\ k \in RunStarted
    /\ k \notin run.listed
    /\ run' = [ run EXCEPT !.listed = @ \cup { k } ]
    /\ feed' = IF k \in SrcKinds
               THEN [ feed EXCEPT ![k] = @ \o [ i \in 1..Len(src[k]) |-> Event(Add, src[k][i]) ] ]
               ELSE feed
    /\ UNCHANGED << src, srcRV, syncerVars, recorderVars, journalFile, replayerVars,
                    services, importer, sim >>


(***************************************************************************)
(* The one-shot importer.  ImportClusterResources goes through GVRs in     *)
(* order; importResource lists the kind's objects on the source and hands  *)
(* one Create per object to an error group with a semaphore, then returns  *)
(* nil: it does not wait for the group.  The error group (package util) is *)
(* not part of the sources at hand: Go takes a slot of the semaphore,      *)
(* waiting while none is free, and runs the function in a goroutine that   *)
(* gives the slot back when it ends; Go itself fails only when the slot    *)
(* cannot be taken, which the group's context allows once one of its       *)
(* functions has failed.                                                   *)
(***************************************************************************)
MaxItems == 3
Ceiling == 2

\* mutant: the older Syncer's order, pods before the volumes
GVRsPodsBeforeVolumes ==
    << "namespaces", "priorityclasses", "storageclasses", "persistentvolumeclaims",
       "nodes", "pods", "persistentvolumes" >>

GVRs ==
    << "namespaces", "priorityclasses", "storageclasses", "persistentvolumeclaims",
       "nodes", "persistentvolumes", "pods" >>

ItemNames == << "pod-1", "pod-2", "pod-3", "pod-4", "pod-5" >>

\* the object a source that was filled before the process started holds
\* under the i-th name of a kind
Item(kind, i) ==
    [ BaseObj(kind) EXCEPT !.name = IF kind = "pods" THEN ItemNames[i] ELSE @,
                           !.uid = i, !.generation = 1, !.resourceVersion = i,
                           !.phase = IF kind = "persistentvolumes" THEN "Available" ELSE @ ]

Task(gvr, obj) == [ gvr |-> gvr, obj |-> obj ]

InFlight(gvr) == { t \in importer.inflight : t.gvr = gvr }

\* mutant: Go never waits for a slot
AcquireAlways(gvr) == TRUE

\* a slot of the semaphore of the kind's error group is free
Acquire(gvr) == Cardinality(InFlight(gvr)) < Ceiling

\* importResource: List
importResourceList ==
    /\ importer.pc = "loop"
    /\ importer.idx < Len(GVRs)
    /\ LET gvr == GVRs[importer.idx + 1] IN
       \E fault \in BOOLEAN :
         IF fault
         THEN importer' = [ importer EXCEPT !.pc = "returned", !.order = Append(@, gvr),
                                            !.err = Err("list", "Other") ]
         ELSE importer' = [ importer EXCEPT !.pc = "spawning", !.order = Append(@, gvr),
                                            !.items = IF gvr \in SrcKinds THEN src[gvr] ELSE << >> ]
    /\ UNCHANGED << src, srcRV, feed, syncerVars, recorderVars, journalFile, replayerVars,
                    services, run, sim >>

\* importResource: eg.Go for the next object of the list
importResourceGo ==
    /\ importer.pc = "spawning"
    /\ importer.items # << >>
    /\ LET gvr == GVRs[importer.idx + 1] IN
       \/ /\ Acquire(gvr)
          /\ importer' = [ importer EXCEPT !.items = Tail(@),
                              !.spawned = Append(@, Task(gvr, Head(importer.items))),
                              !.inflight = @ \cup { Task(gvr, Head(importer.items)) } ]
       \/ /\ gvr \in importer.failed
          /\ importer' = [ importer EXCEPT !.pc = "returned", !.err = Err("go", "Other") ]
    /\ UNCHANGED << src, srcRV, feed, syncerVars, recorderVars, journalFile, replayerVars,
                    services, run, sim >>

\* importResource: return nil after the loop over the list
importResourceReturn ==
    /\ importer.pc = "spawning"
    /\ importer.items = << >>
    /\ importer' = [ importer EXCEPT !.pc = "loop", !.idx = @ + 1 ]
    /\ UNCHANGED << src, srcRV, feed, syncerVars, recorderVars, journalFile, replayerVars,
                    services, run, sim >>

\* ImportClusterResources: return nil after the loop over GVRs
ImportClusterResourcesReturn ==
    /\ importer.pc = "loop"
    /\ importer.idx = Len(GVRs)
    /\ importer' = [ importer EXCEPT !.pc = "returned" ]
    /\ UNCHANGED << src, srcRV, feed, syncerVars, recorderVars, journalFile, replayerVars,
                    services, run, sim >>

\* the loop variable `resource` of the importResource call of a kind: the
\* object of the iteration the loop has reached (spawned: the objects handed
\* to eg.Go so far, in order)
LoopVariable(gvr) ==
    LET OfThisKind(t) == t.gvr = gvr
        s == SelectSeq(importer.spawned, OfThisKind)
    IN s[Len(s)].obj

\* what the closure of a task finds behind &resource when it runs: it
\* captures the loop variable, not its value, and reads it unsynchronised
\* with the loop, so it finds the object of its own iteration or, where the
\* iterations share the variable, the object of the iteration reached since
Captured(t) == { t.obj, LoopVariable(t.gvr) }

\* a goroutine of an error group: Create through the Resource Applier, then
\* give the slot back (item: the object of the iteration that started the
\* goroutine; obj: the object Create was called with)
importWorker ==
    /\ sim.pc \in { "importing", "serving" }
    /\ \E t \in importer.inflight :
         \E fault \in BOOLEAN, resource \in Captured(t) :
           \* the kinds imported are kinds the mapper of the destination knows
           LET c == ApplierCreate(dest, destSeq, resource, TRUE, fault) IN
           /\ dest' = c.store
           /\ destSeq' = c.seq
           /\ importer' = [ importer EXCEPT
                              !.inflight = @ \ { t },
                              !.failed   = IF c.err # NoErr THEN @ \cup { t.gvr } ELSE @,
                              !.creates  = @ \cup { [ gvr |-> t.gvr, item |-> t.obj,
                                                        obj |-> resource,
                                                        err |-> c.err ] } ]
    /\ UNCHANGED << src, srcRV, feed, mutatingFunctions, filteringFunctions, log,
                    recorderVars, journalFile, replayerVars, services, run, sim >>


(***************************************************************************)
(* startSimulator.  It reads the configuration, sets the process up,       *)
(* imports the source once when ExternalImportEnabled is set (and returns  *)
(* the importer's error), then starts the Syncer's Run in a goroutine when *)
(* ResourceSyncEnabled is set, and serves.  The configuration package is   *)
(* not part of the sources at hand; the README says of the two ways of     *)
(* importing that they cannot be used simultaneously, so NewConfig gives   *)
(* no configuration with both set.                                         *)
(***************************************************************************)
\* mutant: any combination of the two settings is a configuration
NewConfigAny ==
    [ ExternalImportEnabled : BOOLEAN, ResourceSyncEnabled : BOOLEAN ]

NewConfig ==
    { cfg \in [ ExternalImportEnabled : BOOLEAN, ResourceSyncEnabled : BOOLEAN ] :
        ~ (cfg.ExternalImportEnabled /\ cfg.ResourceSyncEnabled) }

\* go dic.ResourceSyncer().Run(...) when ResourceSyncEnabled
StartSyncer(cfg) ==
    IF cfg.ResourceSyncEnabled THEN [ run EXCEPT !.called = TRUE ] ELSE run

\* startSimulator up to the call of ImportClusterResources, and past it when
\* there is nothing to import
startSimulator ==
    /\ sim.pc = "start"
    /\ \E cfg \in NewConfig, external \in BOOLEAN, ready \in BOOLEAN, started \in BOOLEAN :
         \* the scheduler is started unless the configuration names an
         \* external one; StartScheduler can fail
         LET scheduler == IF external THEN "none" ELSE "started" IN
         IF ~ ready
         THEN /\ sim' = [ sim EXCEPT !.pc = "failed", !.err = Err("setup", "Other") ]
              /\ UNCHANGED << importer, run >>
         ELSE IF ~ external /\ ~ started
         THEN /\ sim' = [ sim EXCEPT !.pc = "failed", !.err = Err("scheduler", "Other") ]
              /\ UNCHANGED << importer, run >>
         ELSE IF cfg.ExternalImportEnabled
         THEN /\ sim' = [ sim EXCEPT !.pc = "importing",
                             !.ExternalImportEnabled = cfg.ExternalImportEnabled,
                             !.ResourceSyncEnabled = cfg.ResourceSyncEnabled,
                             !.ExternalSchedulerEnabled = external,
                             !.scheduler = scheduler ]
              /\ importer' = [ importer EXCEPT !.pc = "loop" ]
              /\ run' = run
         ELSE /\ sim' = [ sim EXCEPT !.pc = "serving",
                             !.ExternalImportEnabled = cfg.ExternalImportEnabled,
                             !.ResourceSyncEnabled = cfg.ResourceSyncEnabled,
                             !.ExternalSchedulerEnabled = external,
                             !.scheduler = scheduler ]
              /\ importer' = importer
              /\ run' = StartSyncer(cfg)
    /\ UNCHANGED << src, srcRV, feed, syncerVars, recorderVars, journalFile, replayerVars,
                    services >>

\* startSimulator from the return of ImportClusterResources on
startSimulatorImported ==
    /\ sim.pc = "importing"
    /\ importer.pc = "returned"
    /\ IF importer.err # NoErr
       THEN /\ sim' = [ sim EXCEPT !.pc = "failed", !.err = importer.err ]
            /\ run' = run
       ELSE /\ sim' = [ sim EXCEPT !.pc = "serving" ]
            /\ run' = StartSyncer(sim)
    /\ UNCHANGED << src, srcRV, feed, syncerVars, recorderVars, journalFile, replayerVars,
                    services, importer >>

\* the sources the process can be started against: the default namespace,
\* no claim, a volume or none, and up to MaxItems pods
Sources ==
    { [ k \in SrcKinds |->
          CASE k = "namespaces"             -> << Item(k, 1) >>
            [] k = "persistentvolumeclaims" -> << >>
            [] k = "persistentvolumes"      -> [ i \in 1..v |-> Item(k, i) ]
            [] k = "pods"                   -> [ i \in 1..n |-> Item(k, i) ] ] :
      v \in 0..1, n \in 0..MaxItems }

InitSimulator ==
    /\ src \in Sources
    /\ srcRV = 0
    /\ feed = [ k \in SrcKinds |-> << >> ]
    /\ dest = [ k \in SrcKinds |-> << >> ]
    /\ destSeq = 0
    /\ \E options \in OptionChoices :
         /\ mutatingFunctions = New(options).mutatingFunctions
         /\ filteringFunctions = New(options).filteringFunctions
         /\ services = << Service(options, New(options).mutatingFunctions,
                                  New(options).filteringFunctions) >>
    /\ run = NotRunning
    /\ importer = NoImport
    /\ sim = [ NoSimulator EXCEPT !.pc = "start" ]
    /\ log = [ k \in SrcKinds |-> << >> ]
    /\ buffer = << >>
    /\ journalFile = << >>
    /\ recorded = [ k \in SrcKinds |-> 0 ]
    /\ recRunning = [ k \in SrcKinds |-> FALSE ]
    /\ recOverlap = FALSE
    /\ replay = IdleReplay
    /\ runs = << >>

NextSimulator ==
    \/ startSimulator
    \/ startSimulatorImported
    \/ importResourceList
    \/ importResourceGo
    \/ importResourceReturn
    \/ ImportClusterResourcesReturn
    \/ importWorker
    \/ RunLoop
    \/ RunReturn
    \* the informers of the kinds the source holds objects of
    \/ \E k \in SrcKinds : InformerList(k)
    \/ \E k \in SrcKinds : addFunc(k)

SpecSimulator == InitSimulator /\ [][NextSimulator]_vars


(***************************************************************************)
(* Claims about the start of the process, the Syncer's Run and the         *)
(* one-shot importer, checked under SpecSimulator.                         *)
(***************************************************************************)
\* the position of a kind in the Sync Order
Position(order, k) == CHOOSE i \in 1..Len(order) : order[i] = k
Earlier(order, k1, k2) == Position(order, k1) < Position(order, k2)

\* C12: Run establishes the feeds one kind at a time in Sync Order and
\* does not start the feed of a kind before the feed of the kind before it
\* has reported its initial listing complete; hence, for the initial state of
\* the source, every Add handler of an earlier kind has been invoked before
\* the first Add handler of a later kind.
C12_OrderedStartup ==
    /\ \A i \in 2..run.idx :
         MandatoryGVRs[i - 1] \in SrcKinds => MandatoryGVRs[i - 1] \in run.listed
    /\ \A k1 \in SrcKinds, k2 \in SrcKinds :
         (Earlier(MandatoryGVRs, k1, k2) /\ log[k2] # << >>)
            => /\ k1 \in run.listed
               /\ Len(log[k1]) = Len(src[k1])

\* the kinds a kind's objects refer to
References(k) ==
    CASE k = "persistentvolumeclaims" -> { "namespaces" }
      [] k = "persistentvolumes"      -> { "persistentvolumeclaims" }
      [] k = "pods"                   -> { "namespaces", "nodes", "persistentvolumeclaims",
                                           "priorityclasses" }
      [] OTHER                        -> {}

Kinds(order) == { order[i] : i \in 1..Len(order) }

DependencyOrdered(order) ==
    \A i \in 1..Len(order) :
        \A k \in References(order[i]) :
            \E j \in 1..(i - 1) : order[j] = k

FailedCreates == { c \in importer.creates : ReplayFatal(c.err) }

\* C18: when a Create issued by the one-shot importer fails with an
\* unrecoverable error, ImportClusterResources returns an error to its caller
\* (it has not returned nil once a Create has failed) and does not go on to
\* import the remaining kinds (no further kind is listed after the failure).
C18_ImporterErrorPropagation ==
    /\ [] ((importer.pc = "returned" /\ FailedCreates # {}) => importer.err # NoErr)
    /\ [][ FailedCreates # {} => importer'.order = importer.order ]_vars

SameObject(a, b) == a.kind = b.kind /\ a.namespace = b.namespace /\ a.name = b.name

\* C24: for every object, the Syncer never issues the destination Delete
\* of the object before it has at least attempted the handling of the
\* object's Add event (the Add was handled, applied or dropped, and no other
\* Delete of the object lies between); more generally the events of an object
\* are handled, and their destination operations issued, in the order the
\* feed delivered them.
C24_DeleteAfterAdd ==
    \A k \in SrcKinds :
        LET L == log[k] IN
        /\ Len(L) <= Len(feed[k])
        /\ \A i \in 1..Len(L) :
             /\ L[i].event.op = feed[k][i].op
             /\ L[i].event.obj = feed[k][i].obj
             /\ (L[i].call # NoCall) =>
                   L[i].call[1].verb =
                      (CASE L[i].event.op = Add    -> "Create"
                         [] L[i].event.op = Update -> "Update"
                         [] L[i].event.op = Delete -> "Delete")
             /\ (L[i].event.op = Delete) =>
                   \E j \in 1..(i - 1) :
                      /\ L[j].event.op = Add
                      /\ SameObject(L[j].event.obj, L[i].event.obj)
                      /\ \A m \in (j + 1)..(i - 1) : L[m].event.op = Update

\* the Add of a pod was attempted and dropped on an error, and the Delete of
\* the pod was then issued to the destination
C24_Witness ==
    LET L == log["pods"] IN
    /\ Len(L) >= 2
    /\ L[1].event.op = Add /\ L[1].err # NoErr
    /\ L[Len(L)].event.op = Delete
    /\ L[Len(L)].call # NoCall
    /\ L[Len(L)].call[1].verb = "Delete"

\* an error that is the event's own: the kind did not resolve, a function of
\* the pipeline failed, or the destination call failed for another reason
\* than the object's absence
OwnFailure(e) == e.err # NoErr /\ ~ (e.err.stage = "dest" /\ IsNotFound(e.err))

Dropped(e) == e.err # NoErr

\* C28: when the handling of an event of an object failed and was
\* dropped (including a failed Add), a subsequent unplaced Update event of
\* the same object that meets no failure of its own brings the destination
\* object to the shape of that Update.
C28_ImplicitRetry ==
    LET L == log["pods"]
        n == Len(L)
    IN
    ( /\ n >= 2
      /\ L[n].event.op = Update
      /\ ~ Placed(L[n])
      /\ ~ OwnFailure(L[n])
      /\ \E i \in 1..(n - 1) :
            Dropped(L[i]) /\ SameObject(L[i].event.obj, L[n].event.obj) )
    => /\ dest["pods"] # << >>
       /\ dest["pods"][1].obj = PodShape(L[n])

\* C29: the Syncer never writes to the destination a pod whose node
\* assignment is set, neither from an Update event nor from an Add event.
C29_ScheduledPodsNotSynced ==
    \A e \in Entries("pods") :
        Wrote(e) => e.call[1].obj.nodeName = ""

\* the entry a handler step adds to the log of kind k
NewEntry(k) == log'[k][Len(log'[k])]
HandlerStep(k) == Len(log'[k]) = Len(log[k]) + 1

IsFilter(fn) == fn \in { "filterPods", "userFilter" }
IsMutate(fn) == fn \in { "mutatePV", "mutatePods", "userMutate" }

\* C30: on Add the filtering function sees the object as observed; the
\* identity, generation and version stamp are stripped only after the filter
\* accepted (a rejected or failed filter is the handler's last call); the
\* mutating function receives the stripped object; and the object passed to
\* the destination's Create is exactly the mutating function's result, or the
\* stripped object when the kind has no mutating function.
C30_PipelineStepOrder ==
    [][ \A k \in SrcKinds :
          (HandlerStep(k) /\ NewEntry(k).event.op = Add) =>
             LET e        == NewEntry(k)
                 observed == e.event.obj
                 stripped == [ observed EXCEPT !.uid = 0, !.generation = 0,
                                               !.resourceVersion = 0 ]
                 ff       == filteringFunctions[k]
                 mf       == mutatingFunctions[k]
                 nf       == IF ff = "none" THEN 0 ELSE 1
             IN
             e.err.stage # "resolve" =>
               \* the filter, when the kind has one, is the first call and
               \* is given the observed object
               /\ Len(e.fns) >= nf
               /\ (nf = 1) => (e.fns[1].fn = ff /\ e.fns[1].arg = observed)
               \* the mutating function, when it is called, is called after
               \* the filter and is given the stripped object
               /\ Len(e.fns) <= nf + (IF mf = "none" THEN 0 ELSE 1)
               /\ (Len(e.fns) = nf + 1) =>
                     (e.fns[nf + 1].fn = mf /\ e.fns[nf + 1].arg = stripped)
               \* Create is given what the mutating function returned
               /\ (e.call # NoCall) =>
                     /\ e.call[1].verb = "Create"
                     /\ Len(e.fns) = nf + (IF mf = "none" THEN 0 ELSE 1)
                     /\ IF mf = "none"
                        THEN e.call[1].obj = stripped
                        ELSE \E mo \in UserMutateOutcomes :
                                LET mu == MutatingFunction(mf, stripped, src, mo) IN
                                mu.err = NoErr /\ e.call[1].obj = mu.obj
      ]_vars

\* an Add of a pod that carries a source identity went through filterPods,
\* the stripping and mutatePods and was created; and an Add of a kind without
\* mutating function was created as stripped
C30_Witness ==
    /\ \E e \in Entries("pods") :
         /\ e.event.op = Add /\ Applied(e)
         /\ e.event.obj.uid # 0 /\ e.event.obj.serviceAccountName = "custom"
         /\ Len(e.fns) = 2
         /\ e.fns[1].arg = e.event.obj
         /\ e.fns[2].arg # e.event.obj
         /\ e.call[1].obj # e.fns[2].arg
    /\ \E e \in Entries("persistentvolumeclaims") :
         /\ e.event.op = Add /\ Applied(e)
         /\ e.fns = << >>
         /\ e.call[1].obj # e.event.obj


(***************************************************************************)
(* Claims about the Recorder's records, checked under SpecRecorder.        *)
(***************************************************************************)
\* C25: the Recorder applies no filtering and no mutation: every event it
\* took is in the buffer, and after the flush in the Journal, with the object
\* exactly as observed (identity, generation, version stamp, service account
\* and node assignment included); in particular an Update of a pod that
\* carries a node assignment is recorded with the node assignment.
C25_RecorderRecordsRaw ==
    /\ \A k \in SrcKinds :
         LET R == OfKind(buffer, k) IN
         /\ Len(R) = recorded[k]
         /\ \A i \in 1..Len(R) :
              /\ R[i].Event = feed[k][i].op
              /\ R[i].Resource = feed[k][i].obj
    /\ RecorderIdle =>
         \A k \in SrcKinds :
            \A i \in 1..recorded[k] :
               \E n \in 1..Len(journalFile) :
                  /\ journalFile[n].event = feed[k][i].op
                  /\ journalFile[n].resource = feed[k][i].obj

\* the Journal holds the Update of a pod with its node assignment, its
\* source identity and its own service account
C25_Witness ==
    /\ RecorderIdle
    /\ \E n \in 1..Len(journalFile) :
         /\ journalFile[n].event = Update
         /\ journalFile[n].resource.kind = "pods"
         /\ journalFile[n].resource.nodeName = "node-1"
         /\ journalFile[n].resource.uid # 0
         /\ journalFile[n].resource.resourceVersion # 0
         /\ journalFile[n].resource.serviceAccountName = "custom"


(***************************************************************************)
(* Claims about the Resource Applier, checked on the Creates of the        *)
(* Replayer under SpecReplayer.                                            *)
(***************************************************************************)
\* the Creates of the Replay in progress, or of the Replay that has just
\* returned, after a step
CreatesAfter ==
    IF Len(runs') > Len(runs) THEN runs'[Len(runs')].creates ELSE replay'.creates

NeverStopped == FALSE

\* inf.Run(ctx.Done()): the informer stops when the context is done
Stopped == run.cancelled

\* the handler of kind k has been called with an event and has not returned
Invoked(k) == run.taken[k] > Len(log[k])

\* the context given to startSimulator, and by it to Run, is cancelled
Cancel ==
    /\ run.called
    /\ ~ run.cancelled
    /\ run' = [ run EXCEPT !.cancelled = TRUE ]
    /\ UNCHANGED << src, srcRV, feed, syncerVars, recorderVars, journalFile, replayerVars,
                    services, importer, sim >>

\* the informer of kind k calls the handler with the next event of its feed
Consume(k) ==
    /\ ~ Stopped
    /\ k \in run.listed
    /\ Pending(k)
    /\ ~ Invoked(k)
    /\ run' = [ run EXCEPT !.taken[k] = @ + 1 ]
    /\ UNCHANGED << src, srcRV, feed, syncerVars, recorderVars, journalFile, replayerVars,
                    services, importer, sim >>

\* the initial listing of an informer that was not stopped before
List(k) == ~ Stopped /\ InformerList(k)

\* the handler that was called runs, destination call included, and returns
Handle(k) == Invoked(k) /\ Handler(k)

\* a write of the environment to a kind whose informer watches the source,
\* after Run returned
Watched(k) ==
    /\ run.returned
    /\ k \in run.listed
    /\ (SrcCreate(k) \/ SrcUpdate(k) \/ SrcDelete(k))

\* the kinds the source holds objects of, at the start or later
WatchedKinds == { "pods" }

\* what the source holds when the process starts: no pod or one pod, with
\* or without node assignment
RunSources ==
    { [ k \in SrcKinds |-> IF k = "pods" THEN pods ELSE << >> ] :
      pods \in { << >> } \cup
               { << [ Item("pods", 1) EXCEPT !.nodeName = n ] >> : n \in NodeNames } }

InitRun ==
    /\ src \in RunSources
    /\ srcRV = 0
    /\ feed = [ k \in SrcKinds |-> << >> ]
    /\ dest = [ k \in SrcKinds |-> << >> ]
    /\ destSeq = 0
    /\ \E options \in OptionChoices :
         /\ mutatingFunctions = New(options).mutatingFunctions
         /\ filteringFunctions = New(options).filteringFunctions
         /\ services = << Service(options, New(options).mutatingFunctions,
                                  New(options).filteringFunctions) >>
    /\ run = NotRunning
    /\ importer = NoImport
    /\ sim = [ NoSimulator EXCEPT !.pc = "start" ]
    /\ log = [ k \in SrcKinds |-> << >> ]
    /\ buffer = << >>
    /\ journalFile = << >>
    /\ recorded = [ k \in SrcKinds |-> 0 ]
    /\ recRunning = [ k \in SrcKinds |-> FALSE ]
    /\ recOverlap = FALSE
    /\ replay = IdleReplay
    /\ runs = << >>

NextRun ==
    \/ startSimulator
    \/ startSimulatorImported
    \/ importResourceList
    \/ importResourceGo
    \/ importResourceReturn
    \/ ImportClusterResourcesReturn
    \/ importWorker
    \/ RunLoop
    \/ RunReturn
    \/ Cancel
    \/ \E k \in WatchedKinds : List(k)
    \/ \E k \in WatchedKinds : Consume(k)
    \/ \E k \in WatchedKinds : Handle(k)
    \/ \E k \in WatchedKinds : Watched(k)

SpecRun == InitRun /\ [][NextRun]_vars

\* Run's goroutine and the informers' goroutines keep running
SpecRunFair ==
    /\ SpecRun
    /\ WF_vars(RunLoop)
    /\ WF_vars(RunReturn)
    /\ \A k \in WatchedKinds : WF_vars(List(k)) /\ WF_vars(Consume(k)) /\ WF_vars(Handle(k))


(***************************************************************************)
(* Claims about the source store and about Run.                            *)
(***************************************************************************)
\* a step of the environment: one more write to the source store, and
\* nothing of the Syncer or of the importer moves
EnvironmentStep ==
    /\ srcRV' = srcRV + 1
    /\ UNCHANGED << syncerVars, processVars >>

\* C21: no action of the Syncer, of its filtering and mutating functions
\* or of the one-shot importer writes to the source store: across any run the
\* source store changes only in steps of the environment, and every step that
\* writes the destination, calls a function or moves the importer leaves the
\* source store as it was.
C21_SourceReadOnly ==
    [][ /\ (src' # src) => EnvironmentStep
        /\ (dest' # dest \/ log' # log \/ importer' # importer \/ run' # run)
              => src' = src
      ]_vars

\* the handlers applied a Bound volume, whose mutating function read the
\* claim from the source store, and the source still holds the volume and
\* the claim with their identity
C21_Witness ==
    /\ \E e \in Entries("persistentvolumes") :
         /\ Applied(e)
         /\ e.call[1].obj.phase = "Bound"
         /\ Len(e.fns) = 1 /\ e.fns[1].fn = "mutatePV"
    /\ src["persistentvolumes"] # << >>
    /\ src["persistentvolumes"][1].uid # 0
    /\ src["persistentvolumes"][1].phase = "Bound"
    /\ src["persistentvolumeclaims"] # << >>
    /\ src["persistentvolumeclaims"][1].uid # 0

Shows(store, e) ==
    LET c == e.call[1] IN
    IF c.verb = "Delete"
    THEN ~ DestHolds(store, c.gvr, c.namespace, c.name)
    ELSE \E i \in DestIndex(store, c.gvr, c.namespace, c.name) : store[c.gvr][i].obj = c.obj

\* C23: after the context given to Run is cancelled no informer hands a
\* new event to its handler and none makes its initial list, while a handler
\* that was called before the cancellation still runs to completion, and a
\* destination call it makes takes effect.
C23_Cancellation ==
    /\ [][ run.cancelled => (run'.taken = run.taken /\ run'.listed = run.listed) ]_vars
    /\ [] (\A k \in WatchedKinds :
              Len(log[k]) <= run.taken[k] /\ run.taken[k] <= Len(log[k]) + 1)
    /\ \A k \in WatchedKinds :
         (run.cancelled /\ Invoked(k)) ~> (~ Invoked(k))
    /\ [][ \A k \in WatchedKinds :
             (run.cancelled /\ HandlerStep(k)) =>
                /\ Invoked(k)
                /\ NewEntry(k).event = feed[k][run.taken[k]]
                /\ Applied(NewEntry(k)) => Shows(dest', NewEntry(k))
         ]_vars

\* the context is done while the handler of the pods runs with an event that
\* leads to a destination call, and a newer event of the feed is left
C23_Witness ==
    /\ run.cancelled
    /\ Invoked("pods")
    /\ Len(feed["pods"]) > run.taken["pods"]
    /\ NextEvent("pods").op = Add
    /\ dest["pods"] = << >>

\* every event of the kind has been handled and none met an error
Settled(k) ==
    /\ k \in run.listed
    /\ Len(log[k]) = Len(feed[k])
    /\ ~ Invoked(k)
    /\ \A i \in 1..Len(log[k]) : log[k][i].err = NoErr

\* the (namespace, name) pairs either cluster holds for the kind
Held(k) ==
    { << src[k][i].namespace, src[k][i].name >> : i \in 1..Len(src[k]) }
      \cup { << dest[k][i].obj.namespace, dest[k][i].obj.name >> : i \in 1..Len(dest[k]) }

SrcHolds(k, namespace, name) ==
    \E i \in 1..Len(src[k]) : src[k][i].namespace = namespace /\ src[k][i].name = name

Converged(k) == \A p \in Held(k) : DestHolds(dest, k, p[1], p[2]) <=> SrcHolds(k, p[1], p[2])

\* C27: once every event of the pods of the source has been handled and no
\* call met an error, the destination holds a pod (namespace, name) exactly
\* when the source holds it, for a pod the source held before Run and for one
\* created afterwards; a pod deleted on the source becomes absent from the
\* destination unless the context is cancelled or a call fails first.
C27_Convergence ==
    /\ [] (Settled("pods") => Converged("pods"))
    /\ (/\ "pods" \in run.listed
        /\ src["pods"] = << >>
        /\ feed["pods"] # << >>)
         ~> (\/ dest["pods"] = << >>
             \/ src["pods"] # << >>
             \/ run.cancelled
             \/ \E i \in 1..Len(log["pods"]) : log["pods"][i].err # NoErr)

\* a pod the source held before Run (its Add is the listing's, not a write's)
\* was copied, placed and then deleted on the source, and the destination has
\* followed to the end
C27_Witness ==
    /\ Settled("pods")
    /\ Len(feed["pods"]) >= 3
    /\ Len(feed["pods"]) = srcRV + 1
    /\ feed["pods"][1].op = Add
    /\ feed["pods"][1].obj.nodeName = ""
    /\ feed["pods"][2].op = Update
    /\ feed["pods"][2].obj.nodeName # ""
    /\ feed["pods"][3].op = Delete
    /\ log["pods"][2].call = NoCall
    /\ dest["pods"] = << >>
    /\ src["pods"] = << >>

\* the identity, generation and version stamp of two objects are the same
SameMetadata(a, b) ==
    a.uid = b.uid /\ a.generation = b.generation /\ a.resourceVersion = b.resourceVersion

\* C31: on Update nothing is stripped: the filtering and the mutating
\* function are given the object as the informer observed it, the object
\* passed to the destination's Update is exactly what the mutating function
\* returned (the observed object when the kind has none), and with a built-in
\* mutating function or none it keeps the UID, generation and
\* resourceVersion of the source object.
C31_NoStrippingOnUpdate ==
    [][ \A k \in SrcKinds :
          (HandlerStep(k) /\ NewEntry(k).event.op = Update) =>
             LET e        == NewEntry(k)
                 observed == e.event.obj
                 mf       == mutatingFunctions[k]
             IN
             /\ \A j \in 1..Len(e.fns) : e.fns[j].arg = observed
             /\ (e.call # NoCall) =>
                   /\ e.call[1].verb = "Update"
                   /\ IF mf = "none"
                      THEN e.call[1].obj = observed
                      ELSE \E mo \in UserMutateOutcomes :
                              LET mu == MutatingFunction(mf, observed, src, mo) IN
                              mu.err = NoErr /\ e.call[1].obj = mu.obj
                   /\ (mf # "userMutate") => SameMetadata(e.call[1].obj, observed)
      ]_vars

\* an Update of a pod reached the destination with the source's UID,
\* generation and version stamp on it
C31_Witness ==
    \E e \in Entries("pods") :
        /\ e.event.op = Update
        /\ Applied(e)
        /\ e.call[1].obj.uid > 0
        /\ e.call[1].obj.generation > 1
        /\ e.call[1].obj.resourceVersion > 1

\* C32: when the kind of an event's object does not resolve, the handling
\* of the Add, Update or Delete returns the resolution error having called no
\* filtering or mutating function and having issued no destination call, and
\* the destination is as it was before the event; an event that did go through
\* a function or a call never carries a resolution error.
C32_ResolutionFailure ==
    [][ \A k \in SrcKinds :
          HandlerStep(k) =>
             LET e == NewEntry(k) IN
             /\ e.event = NextEvent(k)
             /\ (e.err.stage = "resolve") =>
                   /\ e.fns = << >>
                   /\ e.call = NoCall
                   /\ dest' = dest
                   /\ destSeq' = destSeq
             /\ (e.fns # << >> \/ e.call # NoCall) => e.err.stage # "resolve"
      ]_vars

\* a Delete whose kind did not resolve left on the destination the object it
\* would have deleted
C32_Witness ==
    \E k \in SrcKinds : \E e \in Entries(k) :
        /\ e.event.op = Delete
        /\ e.err.stage = "resolve"
        /\ e = log[k][Len(log[k])]
        /\ DestHolds(dest, k, e.event.obj.namespace, e.event.obj.name)

\* the claim a Bound volume refers to is not on the source
ClaimMissing(obj) ==
    /\ obj.phase = "Bound"
    /\ ~ Holds(src, "persistentvolumeclaims", obj.claimRef[1].namespace, obj.claimRef[1].name)

\* C33: when the mutating function of the kind returns an error on an Add
\* or Update event, the handler returns that error, no destination Create or
\* Update is issued and the destination is as it was; in particular a Bound
\* volume whose claim cannot be read from the source is never written.
C33_MutationFailure ==
    [][ \A k \in SrcKinds :
          HandlerStep(k) =>
             LET e == NewEntry(k) IN
             /\ (e.err.stage = "mutate") =>
                   /\ e.event.op \in { Add, Update }
                   /\ e.fns # << >>
                   /\ e.fns[Len(e.fns)].fn = mutatingFunctions[k]
                   /\ e.call = NoCall
                   /\ dest' = dest
                   /\ destSeq' = destSeq
             /\ (/\ k = "persistentvolumes"
                 /\ e.event.op \in { Add, Update }
                 /\ e.err.stage # "resolve"
                 /\ ClaimMissing(e.event.obj)) =>
                   /\ e.err.stage = "mutate"
                   /\ e.call = NoCall
                   /\ dest' = dest
      ]_vars

\* the Update of a volume the destination holds failed in the mutating
\* function and left the destination's volume as the Add had written it
C33_Witness ==
    LET l == log["persistentvolumes"] IN
    /\ Len(l) >= 2
    /\ l[1].event.op = Add /\ Applied(l[1])
    /\ l[2].event.op = Update /\ l[2].err.stage = "mutate" /\ l[2].call = NoCall
    /\ Len(dest["persistentvolumes"]) = 1
    /\ dest["persistentvolumes"][1].obj = l[1].call[1].obj
    /\ dest["persistentvolumes"][1].obj.phase # l[2].event.obj.phase

(***************************************************************************)
(* mutatePV over the volumes it can be given.  The Syncer handles one      *)
(* event of a persistent volume (an Add or an Update) whose phase and      *)
(* claim reference are drawn from the values the API allows: a volume that *)
(* is Bound refers to a claim; a Released or pre-bound Available volume    *)
(* may refer to one as well, with the UID of a claim that may be gone.     *)
(* The claim on the source comes and goes meanwhile.                       *)
(***************************************************************************)
VolumePhases == { "Pending", "Available", "Bound", "Released" }
ClaimUIDs == { 1, 2 }

ClaimRefs ==
    { << >> } \cup
    { << [ namespace |-> ObjNamespace("persistentvolumeclaims"),
           name      |-> ObjName("persistentvolumeclaims"),
           uid       |-> u ] >> : u \in ClaimUIDs }

Volume(p, c) ==
    [ BaseObj("persistentvolumes") EXCEPT !.uid = 1, !.generation = 1, !.resourceVersion = 1,
                                          !.phase = p, !.claimRef = c ]

Volumes ==
    { Volume(p, c) : p \in VolumePhases \ { "Bound" }, c \in ClaimRefs }
      \cup { Volume("Bound", c) : c \in ClaimRefs \ { << >> } }

ClaimStores ==
    { << >> } \cup
    { << [ BaseObj("persistentvolumeclaims") EXCEPT !.uid = u, !.generation = 1,
                                                    !.resourceVersion = u ] >> :
        u \in ClaimUIDs }

InitMutatePV ==
    /\ \E pv \in Volumes, claims \in ClaimStores, op \in { Add, Update } :
         /\ src = [ k \in SrcKinds |->
                      CASE k = "persistentvolumes"      -> << pv >>
                        [] k = "persistentvolumeclaims" -> claims
                        [] OTHER                        -> << >> ]
         /\ feed = [ k \in SrcKinds |->
                      IF k = "persistentvolumes" THEN << Event(op, pv) >> ELSE << >> ]
         /\ dest = [ k \in SrcKinds |->
                      IF k = "persistentvolumes" /\ op = Update
                      THEN << [ obj |-> [ pv EXCEPT !.uid = 0, !.generation = 0,
                                                    !.resourceVersion = 0,
                                                    !.phase = "Pending",
                                                    !.claimRef = << >> ],
                                id |-> 0 - 1 ] >>
                      ELSE << >> ]
         /\ destSeq = IF op = Update THEN 1 ELSE 0
    /\ srcRV = 0
    /\ \E options \in OptionChoices :
         /\ mutatingFunctions = New(options).mutatingFunctions
         /\ filteringFunctions = New(options).filteringFunctions
         /\ services = << Service(options, New(options).mutatingFunctions,
                                  New(options).filteringFunctions) >>
    /\ run = Established
    /\ importer = NoImport
    /\ sim = NoSimulator
    /\ log = [ k \in SrcKinds |-> << >> ]
    /\ buffer = << >>
    /\ journalFile = << >>
    /\ recorded = [ k \in SrcKinds |-> 0 ]
    /\ recRunning = [ k \in SrcKinds |-> FALSE ]
    /\ recOverlap = FALSE
    /\ replay = IdleReplay
    /\ runs = << >>

NextMutatePV ==
    \/ addFunc("persistentvolumes")
    \/ updateFunc("persistentvolumes")
    \/ SrcCreate("persistentvolumeclaims")
    \/ SrcDelete("persistentvolumeclaims")

SpecMutatePV == InitMutatePV /\ [][NextMutatePV]_vars

\* C34: for a persistent volume whose phase is not Bound the volume
\* mutating function reads nothing from the source (its result is the same
\* whatever claims the source holds, and it never fails on a lookup) and
\* returns the volume with its claim reference as it was; a handled volume
\* whose claim reference differs from the observed one was Bound.
C34_UnboundVolumesUntouched ==
    [][ HandlerStep("persistentvolumes") =>
          LET e   == NewEntry("persistentvolumes")
              arg == IF e.event.op = Add
                     THEN [ e.event.obj EXCEPT !.uid = 0, !.generation = 0,
                                               !.resourceVersion = 0 ]
                     ELSE e.event.obj
          IN
          /\ (e.event.obj.phase # "Bound" /\ e.err.stage # "resolve") =>
                /\ e.err.stage # "mutate"
                /\ e.call # NoCall
                /\ e.call[1].obj.claimRef = e.event.obj.claimRef
                /\ e.call[1].obj.phase = e.event.obj.phase
                /\ \A claims \in ClaimStores :
                      e.call[1].obj =
                        mutatePV(arg, [ src EXCEPT !["persistentvolumeclaims"] = claims ]).obj
          /\ (e.call # NoCall /\ e.call[1].obj.claimRef # e.event.obj.claimRef) =>
                e.event.obj.phase = "Bound"
      ]_vars

\* a Released volume that refers to a claim the source holds under another
\* UID was written to the destination with the reference as it was observed
C34_Witness ==
    \E e \in Entries("persistentvolumes") :
        /\ e.event.obj.phase = "Released"
        /\ e.event.obj.claimRef # << >>
        /\ src["persistentvolumeclaims"] # << >>
        /\ src["persistentvolumeclaims"][1].uid # e.event.obj.claimRef[1].uid
        /\ Applied(e)
        /\ e.call[1].obj.claimRef = e.event.obj.claimRef

\* C35: in the one-shot importer every Create of the objects of one kind
\* has completed before the next kind of the import order is listed and before
\* its first Create is issued: a Create in flight belongs to the kind listed
\* last, and no kind is listed while a Create is in flight.
C35_ImporterKindOrdering ==
    /\ [] (\A t \in importer.inflight :
              importer.order # << >> /\ t.gvr = importer.order[Len(importer.order)])
    /\ [][ importer'.order # importer.order => importer.inflight = {} ]_vars

C38_ImportAfterSchedulerStart ==
    importer.pc # "idle" => sim.scheduler = "started"

\* a Delete the destination answered with NotFound
BenignDelete(e) ==
    /\ e.event.op = Delete
    /\ e.call # NoCall
    /\ e.call[1].verb = "Delete"
    /\ e.err.stage = "dest"
    /\ IsNotFound(e.err)

\* C37: when the destination's Delete for a Delete event fails with
\* NotFound, deleteFunc logs a skip at info level and not a failure, the
\* destination is as it was, and the handlers go on with the events that
\* follow (a pending event of the kind can always be handled).
C37_BenignDelete ==
    /\ [][ \A k \in SrcKinds :
             (HandlerStep(k) /\ BenignDelete(NewEntry(k))) =>
                /\ NewEntry(k).level = "info"
                /\ dest' = dest
                /\ destSeq' = destSeq
         ]_vars
    /\ [] (\A k \in SrcKinds : Pending(k) => ENABLED Handler(k))

\* a Delete of a pod the destination never got was skipped, and the Add that
\* followed it was applied
C37_Witness ==
    LET l == log["pods"] IN
    /\ Len(l) = 3
    /\ l[1].event.op = Add /\ l[1].err # NoErr
    /\ BenignDelete(l[2]) /\ l[2].level = "info"
    /\ l[3].event.op = Add /\ Applied(l[3])
    /\ Len(dest["pods"]) = 1

=============================================================================
